---- MODULE Spec2Model ----
(***************************************************************************)
(* State-machine model of the Maschine Mikro Mk2 driver                    *)
(* (src/src/devices/maschine_mikro_mk2.rs, src/src/display.rs,             *)
(* src/src/colour.rs, src/src/events.rs).                                  *)
(*                                                                         *)
(* Arrays are functions over 0-based index ranges, as in the source.       *)
(* Report payloads are sequences; payload byte i of the source is          *)
(* element i+1 of the sequence.                                            *)
(***************************************************************************)
EXTENDS Integers, Sequences, FiniteSets, TLC

VARIABLES
    tick_state,     \* MaschineMikroMk2.tick_state
    display,        \* MaschineMikroMk2.display, the canvas of the driver
    leds,           \* MaschineMikroMk2.leds
    leds_dirty,     \* MaschineMikroMk2.leds_dirty
    button_states,  \* MaschineMikroMk2.button_states
    shift_pressed,  \* MaschineMikroMk2.shift_pressed
    pads_data,      \* MaschineMikroMk2.pads_data
    pads_status,    \* MaschineMikroMk2.pads_status
    encoder_value,  \* MaschineMikroMk2.encoder_value
    events,         \* EventContext.events of the caller's context
    wire,           \* reports the last call of the driver wrote to the
                    \* device: only tick writes
    reads,          \* device.read calls the last call of the driver made:
                    \* only tick reads
    canvas,         \* a MonochromeCanvas the caller owns and draws on
    last,           \* history: the last operation, its input and its result
    heard,          \* history: the last button payload decoded, and for
                    \* every button id the last pressed value emitted
    transmitted,    \* history: the table of the last LED report the
                    \* transport accepted, None before the first
    dispatched      \* history: the reports the last call of the driver
                    \* handed to the decoder, with the read attempt of each

vars == <<tick_state, display, leds, leds_dirty, button_states,
          shift_pressed, pads_data, pads_status, encoder_value, events,
          wire, reads, canvas, last, heard, transmitted, dispatched>>

-----------------------------------------------------------------------------
(* Program constants *)

LED_GROUP == 8
LED_SHIFT == 21
LED_PAD13 == 30
LED_PAD04 == 75

BUTTON_SHIFT == 0
BUTTON_NONE == 32

LED_COUNT == 78
BUTTON_COUNT == 45
PAD_COUNT == 16

DISPLAY_ADDR == 224
LED_ADDR == 128

INPUT_BUFFER_SIZE == 512

\* read attempts of one poll phase, and the pad sampling cadence
ReadAttempts == 32
PadCadence == 7

PadThreshold == 512
EncoderMax == 15

-----------------------------------------------------------------------------
(* Bounds of the model *)

\* decode calls are taken while at most this many events wait in the queue
MaxPending == 1

-----------------------------------------------------------------------------
(* Evaluation order *)

\* TRUE of every value.  An operator's argument is evaluated when it is
\* first used; a loop that tests this of the value an iteration starts from
\* evaluates its iterations one after the other instead of one within the
\* other
Evaluated(v) == v = v

-----------------------------------------------------------------------------
(* Bit arithmetic on unsigned integers *)

Shr(x, k) == x \div (2 ^ k)

Shl8(x, k) == (x * (2 ^ k)) % 256

RECURSIVE BitAnd(_, _)
BitAnd(a, b) ==
    IF a = 0 \/ b = 0 THEN 0
    ELSE 2 * BitAnd(a \div 2, b \div 2) + (IF a % 2 = 1 /\ b % 2 = 1 THEN 1 ELSE 0)

RECURSIVE BitOr(_, _)
BitOr(a, b) ==
    IF a = 0 THEN b
    ELSE IF b = 0 THEN a
    ELSE 2 * BitOr(a \div 2, b \div 2) + (IF a % 2 = 1 \/ b % 2 = 1 THEN 1 ELSE 0)

-----------------------------------------------------------------------------
(* colour.rs *)

Colour(r, g, b) == [r |-> r, g |-> g, b |-> b]

BLACK == Colour(0, 0, 0)
WHITE == Colour(255, 255, 255)

\* variant: the threshold compared with >=
as_1bit_ge(c) == IF (c.r >= 127) \/ (c.g >= 127) \/ (c.b >= 127) THEN 255 ELSE 0

as_1bit(c) == IF (c.r > 127) \/ (c.g > 127) \/ (c.b > 127) THEN 255 ELSE 0

\* Colour::from_u24
from_u24(v) ==
    LET r == BitAnd(v, 255)
        g == BitAnd(Shr(v, 8), 255)
        b == BitAnd(Shr(v, 16), 255)
    IN Colour(r, g, b)

\* operator << on a u8 widened to u32, by at most 16: no bit is shifted out
Shl32(x, k) == x * (2 ^ k)

\* variant: the channels are shifted at their own width of 8 bits
as_u24_narrow(c) == BitOr(BitOr(c.r, Shl8(c.g, 8)), Shl8(c.b, 16))

as_u24(c) == BitOr(BitOr(c.r, Shl32(c.g, 8)), Shl32(c.b, 16))

-----------------------------------------------------------------------------
(* events.rs *)

ButtonChange(button, pressed, shift) ==
    [type |-> "ButtonChange", id |-> button, value |-> pressed, shift |-> shift]

EncoderChange(encoder, direction, shift) ==
    [type |-> "EncoderChange", id |-> encoder, value |-> direction, shift |-> shift]

PadChange(pad, velocity, shift) ==
    [type |-> "PadChange", id |-> pad, value |-> velocity, shift |-> shift]

\* EventContext::add_event on the context carried in the device record
add_event(d, event) == [d EXCEPT !.events = Append(@, event)]

-----------------------------------------------------------------------------
(* The device record: the fields of MaschineMikroMk2, together with the    *)
(* caller's event queue.                                                   *)

Self ==
    [tick_state |-> tick_state, display |-> display,
     leds |-> leds, leds_dirty |-> leds_dirty, button_states |-> button_states,
     shift_pressed |-> shift_pressed, pads_data |-> pads_data,
     pads_status |-> pads_status, encoder_value |-> encoder_value,
     events |-> events]

Store(d) ==
    /\ tick_state' = d.tick_state
    /\ display' = d.display
    /\ leds' = d.leds
    /\ leds_dirty' = d.leds_dirty
    /\ button_states' = d.button_states
    /\ shift_pressed' = d.shift_pressed
    /\ pads_data' = d.pads_data
    /\ pads_status' = d.pads_status
    /\ encoder_value' = d.encoder_value
    /\ events' = d.events

-----------------------------------------------------------------------------
(* LED mapper *)

\* variant: every slot is written as three bytes
is_rgb_led_all(led) == led >= 0

is_rgb_led(led) == (led = LED_GROUP) \/ (led >= LED_PAD13 /\ led <= LED_PAD04)

set_led(d, led, colour) ==
    LET base == led IN
    IF is_rgb_led(led)
    THEN [d EXCEPT
            !.leds_dirty = (colour.r # d.leds[base])
                           \/ (colour.g # d.leds[base + 1])
                           \/ (colour.b # d.leds[base + 2]),
            !.leds = [@ EXCEPT ![base] = Shr(colour.r, 1),
                               ![base + 1] = Shr(colour.g, 1),
                               ![base + 2] = Shr(colour.b, 1)]]
    ELSE LET m == as_1bit(colour) IN
         [d EXCEPT !.leds_dirty = (m # d.leds[base]),
                   !.leds = [@ EXCEPT ![base] = m]]

-----------------------------------------------------------------------------
(* Protocol decoder: buttons and encoder *)

as_device_button(button) ==
    CASE button = 1 -> "Erase"
      [] button = 2 -> "Rec"
      [] button = 3 -> "Play"
      [] button = 4 -> "Grid"
      [] button = 5 -> "TransportRight"
      [] button = 6 -> "TransportLeft"
      [] button = 7 -> "Restart"
      [] button = 11 -> "MainEncoder"
      [] button = 12 -> "NoteRepeat"
      [] button = 13 -> "Sampling"
      [] button = 14 -> "Browse"
      [] button = 15 -> "Group"
      [] button = 16 -> "Main"
      [] button = 17 -> "BrowseRight"
      [] button = 18 -> "BrowseLeft"
      [] button = 19 -> "Nav"
      [] button = 20 -> "Control"
      [] button = 21 -> "F3"
      [] button = 22 -> "F2"
      [] button = 23 -> "F1"
      [] button = 24 -> "Mute"
      [] button = 25 -> "Solo"
      [] button = 26 -> "Select"
      [] button = 27 -> "Duplicate"
      [] button = 28 -> "View"
      [] button = 29 -> "PadMode"
      [] button = 30 -> "Pattern"
      [] button = 31 -> "Scene"
      [] OTHER -> "Unknown"

\* variant: the bit index taken modulo 7
is_button_pressed_mod7(buffer, button) ==
    LET byte_idx == Shr(button, 3) IN
    BitAnd(buffer[byte_idx + 1], Shl8(1, button % 7)) # 0

is_button_pressed(buffer, button) ==
    LET byte_idx == Shr(button, 3) IN
    BitAnd(buffer[byte_idx + 1], Shl8(1, button % 8)) # 0

\* variant: a Shift change is queued as an event like any other
scan_button_shift_event(d, buffer, btn) ==
    LET button_pressed == is_button_pressed(buffer, btn) IN
    IF button_pressed # d.button_states[btn]
    THEN LET d1 == [d EXCEPT !.button_states[btn] = button_pressed]
             d2 == IF btn = BUTTON_SHIFT
                   THEN set_led([d1 EXCEPT !.shift_pressed = button_pressed],
                                LED_SHIFT,
                                IF button_pressed THEN WHITE ELSE BLACK)
                   ELSE d1
         IN add_event(d2, ButtonChange(as_device_button(btn), button_pressed,
                                       d2.shift_pressed))
    ELSE d

\* one iteration of the scan loop of process_buttons
scan_button(d, buffer, btn) ==
    LET button_pressed == is_button_pressed(buffer, btn) IN
    IF button_pressed # d.button_states[btn]
    THEN LET d1 == [d EXCEPT !.button_states[btn] = button_pressed] IN
         IF btn = BUTTON_SHIFT
         THEN set_led([d1 EXCEPT !.shift_pressed = button_pressed], LED_SHIFT,
                      IF button_pressed THEN WHITE ELSE BLACK)
         ELSE add_event(d1, ButtonChange(as_device_button(btn), button_pressed,
                                         d1.shift_pressed))
    ELSE d

\* the scan loop: for btn in lo..hi, hi excluded, in ascending order.  The
\* range is split in halves and the driver an iteration starts from is
\* evaluated first, so that the evaluation of the 32 iterations nests five
\* deep instead of 32
RECURSIVE scan_buttons(_, _, _, _)
scan_buttons(d, buffer, lo, hi) ==
    IF lo >= hi \/ ~Evaluated(d) THEN d
    ELSE IF hi - lo = 1 THEN scan_button(d, buffer, lo)
    ELSE LET mid == (lo + hi) \div 2
         IN scan_buttons(scan_buttons(d, buffer, lo, mid), buffer, mid, hi)

\* variant: no wrap-around cases
encoder_direction_nowrap(old, new) == IF old < new THEN "Down" ELSE "Up"

encoder_direction(old, new) ==
    IF ((old < new) \/ ((old = 15) /\ (new = 0))) /\ ~((old = 0) /\ (new = 15))
    THEN "Down"
    ELSE "Up"

\* variant: the new encoder value is not stored
handle_encoder_nostore(d, buffer) ==
    LET value == buffer[5] IN
    IF d.encoder_value # value
    THEN LET direction == encoder_direction(d.encoder_value, value)
         IN add_event(d, EncoderChange(0, direction, d.shift_pressed))
    ELSE d

\* variant: an event for every report, changed or not
handle_encoder_always(d, buffer) ==
    LET value == buffer[5]
        direction == encoder_direction(d.encoder_value, value)
        d1 == [d EXCEPT !.encoder_value = value]
    IN add_event(d1, EncoderChange(0, direction, d1.shift_pressed))

handle_encoder(d, buffer) ==
    LET value == buffer[5] IN
    IF d.encoder_value # value
    THEN LET direction == encoder_direction(d.encoder_value, value)
             d1 == [d EXCEPT !.encoder_value = value]
         IN add_event(d1, EncoderChange(0, direction, d1.shift_pressed))
    ELSE d

\* variant: the Shift slot is scanned after the other slots
process_buttons_shift_last(d, buffer) ==
    IF Len(buffer) < 5
    THEN [d |-> d, result |-> "InvalidReport"]
    ELSE [d |-> handle_encoder(
                   scan_buttons(scan_buttons(d, buffer, BUTTON_SHIFT + 1,
                                             BUTTON_NONE),
                                buffer, BUTTON_SHIFT, BUTTON_SHIFT + 1),
                   buffer),
          result |-> "Ok"]

process_buttons(d, buffer) ==
    IF Len(buffer) < 5
    THEN [d |-> d, result |-> "InvalidReport"]
    ELSE [d |-> handle_encoder(scan_buttons(d, buffer, BUTTON_SHIFT, BUTTON_NONE),
                              buffer),
          result |-> "Ok"]

-----------------------------------------------------------------------------
(* Protocol decoder: pads *)

\* variant: pressed from the threshold itself on
decode_pad_ge(d, buffer, idx) ==
    LET low_byte == buffer[idx + 1]
        high_byte == buffer[idx + 2]
        pad == Shr(BitAnd(high_byte, 240), 4)
        value == BitOr(BitAnd(high_byte, 15) * 256, low_byte)
        pressed == value >= PadThreshold
        d1 == [d EXCEPT !.pads_data[pad] = value]
    IN IF pressed \/ d1.pads_status[pad]
       THEN add_event([d1 EXCEPT !.pads_status[pad] = pressed],
                      PadChange(pad,
                                IF pressed THEN Shr(value, 4) % 256 ELSE 0,
                                d1.shift_pressed))
       ELSE d1

\* variant: the latch is never released
decode_pad_sticky(d, buffer, idx) ==
    LET low_byte == buffer[idx + 1]
        high_byte == buffer[idx + 2]
        pad == Shr(BitAnd(high_byte, 240), 4)
        value == BitOr(BitAnd(high_byte, 15) * 256, low_byte)
        pressed == value > PadThreshold
        d1 == [d EXCEPT !.pads_data[pad] = value]
    IN IF pressed \/ d1.pads_status[pad]
       THEN add_event([d1 EXCEPT !.pads_status[pad] = TRUE],
                      PadChange(pad,
                                IF pressed THEN Shr(value, 4) % 256 ELSE 0,
                                d1.shift_pressed))
       ELSE d1

\* one iteration of the channel loop of process_pads, idx the byte offset
\* variant: the raw value is stored only while the pad is pressed
decode_pad_pressed_only(d, buffer, idx) ==
    LET low_byte == buffer[idx + 1]
        high_byte == buffer[idx + 2]
        pad == Shr(BitAnd(high_byte, 240), 4)
        value == BitOr(BitAnd(high_byte, 15) * 256, low_byte)
        pressed == value > PadThreshold
        d1 == IF pressed THEN [d EXCEPT !.pads_data[pad] = value] ELSE d
    IN IF pressed \/ d1.pads_status[pad]
       THEN add_event([d1 EXCEPT !.pads_status[pad] = pressed],
                      PadChange(pad,
                                IF pressed THEN Shr(value, 4) % 256 ELSE 0,
                                d1.shift_pressed))
       ELSE d1

decode_pad(d, buffer, idx) ==
    LET low_byte == buffer[idx + 1]
        high_byte == buffer[idx + 2]
        pad == Shr(BitAnd(high_byte, 240), 4)
        value == BitOr(BitAnd(high_byte, 15) * 256, low_byte)
        pressed == value > PadThreshold
        d1 == [d EXCEPT !.pads_data[pad] = value]
    IN IF pressed \/ d1.pads_status[pad]
       THEN add_event([d1 EXCEPT !.pads_status[pad] = pressed],
                      PadChange(pad,
                                IF pressed THEN Shr(value, 4) % 256 ELSE 0,
                                d1.shift_pressed))
       ELSE d1

\* the channel loop: for idx in (lo..hi).step_by(2), in ascending order,
\* split in halves and evaluated like the scan loop of process_buttons
RECURSIVE decode_pads(_, _, _, _)
decode_pads(d, buffer, lo, hi) ==
    IF lo >= hi \/ ~Evaluated(d) THEN d
    ELSE IF hi - lo <= 2 THEN decode_pad(d, buffer, lo)
    ELSE LET mid == lo + 2 * ((hi - lo) \div 4)
         IN decode_pads(decode_pads(d, buffer, lo, mid), buffer, mid, hi)

\* variant: the first channel is decoded before the length is checked
process_pads_late_check(d, buffer) ==
    IF Len(buffer) < 64
    THEN [d |-> IF Len(buffer) >= 2 THEN decode_pad(d, buffer, 0) ELSE d,
          result |-> "InvalidReport"]
    ELSE [d |-> decode_pads(d, buffer, 0, 32), result |-> "Ok"]

process_pads(d, buffer) ==
    IF Len(buffer) < 64
    THEN [d |-> d, result |-> "InvalidReport"]
    ELSE [d |-> decode_pads(d, buffer, 0, 32), result |-> "Ok"]

-----------------------------------------------------------------------------
(* LED mapper: the Controller interface *)

\* Option<u8>
None == <<>>

Some(led) == <<led>>

button_to_led(button) ==
    CASE button = "Erase" -> Some(20)
      [] button = "Rec" -> Some(19)
      [] button = "Play" -> Some(18)
      [] button = "Grid" -> Some(17)
      [] button = "TransportRight" -> Some(16)
      [] button = "TransportLeft" -> Some(15)
      [] button = "Restart" -> Some(14)
      [] button = "NoteRepeat" -> Some(13)
      [] button = "Sampling" -> Some(12)
      [] button = "Browse" -> Some(11)
      [] button = "Group" -> Some(LED_GROUP)
      [] button = "Main" -> Some(7)
      [] button = "BrowseRight" -> Some(6)
      [] button = "BrowseLeft" -> Some(5)
      [] button = "Nav" -> Some(4)
      [] button = "Control" -> Some(3)
      [] button = "F3" -> Some(2)
      [] button = "F2" -> Some(1)
      [] button = "F1" -> Some(0)
      [] button = "Mute" -> Some(29)
      [] button = "Solo" -> Some(28)
      [] button = "Select" -> Some(27)
      [] button = "Duplicate" -> Some(26)
      [] button = "View" -> Some(25)
      [] button = "PadMode" -> Some(24)
      [] button = "Pattern" -> Some(23)
      [] button = "Scene" -> Some(22)
      [] OTHER -> None

pad_to_led(pad) ==
    CASE pad = 0 -> Some(LED_PAD13)
      [] pad = 1 -> Some(33)
      [] pad = 2 -> Some(36)
      [] pad = 3 -> Some(39)
      [] pad = 4 -> Some(42)
      [] pad = 5 -> Some(45)
      [] pad = 6 -> Some(48)
      [] pad = 7 -> Some(51)
      [] pad = 8 -> Some(54)
      [] pad = 9 -> Some(57)
      [] pad = 10 -> Some(60)
      [] pad = 11 -> Some(63)
      [] pad = 12 -> Some(66)
      [] pad = 13 -> Some(69)
      [] pad = 14 -> Some(72)
      [] pad = 15 -> Some(LED_PAD04)
      [] OTHER -> None

\* variant: an unmapped button marks the table dirty
set_button_led_dirty(d, button, colour) ==
    LET led == button_to_led(button) IN
    IF led # None THEN set_led(d, led[1], colour)
    ELSE [d EXCEPT !.leds_dirty = TRUE]

set_button_led(d, button, colour) ==
    LET led == button_to_led(button) IN
    IF led # None THEN set_led(d, led[1], colour) ELSE d

set_pad_led(d, pad, colour) ==
    LET led == pad_to_led(pad) IN
    IF led # None THEN set_led(d, led[1], colour) ELSE d

-----------------------------------------------------------------------------
(* example/src/main.rs: the event loop of the caller.  It lights the LED of *)
(* a button that was pressed in a random colour and turns the LED of a      *)
(* button that was released without Shift off.                              *)

\* the body of the loop for the event popped: colour is what Colour::random()
\* yields when the event is a press
handle_event(d, event, colour) ==
    IF event.type = "ButtonChange"
    THEN IF event.value THEN set_button_led(d, event.id, colour)
         ELSE IF ~event.shift THEN set_button_led(d, event.id, BLACK)
         ELSE d
    ELSE d

\* while !context.events.is_empty(): the k-th event is popped and handled;
\* rnd holds the colour drawn for the k-th event when it is a press
RECURSIVE handle_events(_, _, _)
handle_events(d, rnd, k) ==
    IF ~Evaluated(d) \/ d.events = <<>> THEN d
    ELSE handle_events(
            handle_event([d EXCEPT !.events = Tail(@)], Head(d.events),
                         IF k \in DOMAIN rnd THEN rnd[k] ELSE BLACK),
            rnd, k + 1)

-----------------------------------------------------------------------------
(* display.rs: the construction of a MonochromeCanvas, its size and its     *)
(* dirty flag                                                              *)

\* MonochromeCanvas::new
MonochromeCanvas_new(width, height) ==
    [width |-> width, height |-> height,
     buffer |-> [i \in 0..(((width * height) \div 8) - 1) |-> 0],
     dirty |-> TRUE]

data_size(c) == Cardinality(DOMAIN c.buffer)

is_dirty(c) == c.dirty

clear_dirty_flag(c) == [c |-> [c EXCEPT !.dirty = FALSE], result |-> "Ok"]

-----------------------------------------------------------------------------
(* Output scheduler: the three phases of tick.  The transport is the      *)
(* environment: every write and every read either succeeds or fails.       *)

\* variant: the chunk of a band row starts at row * 256
frame_report_stride(c, row) ==
    LET x_offset == row * 256 IN
    IF x_offset + 256 > data_size(c) THEN None
    ELSE Some([header |-> <<DISPLAY_ADDR, 0, 0, row, 0, 128, 0, 2, 0>>,
               bytes |-> [k \in 1..256 |-> c.buffer[x_offset + k - 1]]])

\* the report send_frame builds for a band row: the header and the slice
\* data()[x_offset..(x_offset + 256)] of the display; None where the slice
\* reaches past the end of the buffer, which is a panic
frame_report(c, row) ==
    LET x_offset == row * 128 IN
    IF x_offset + 256 > data_size(c) THEN None
    ELSE Some([header |-> <<DISPLAY_ADDR, 0, 0, row, 0, 128, 0, 2, 0>>,
               bytes |-> [k \in 1..256 |-> c.buffer[x_offset + k - 1]]])

\* the chunk loop of send_frame: for row in (0..8).step_by(2); fail is the
\* row whose write the transport fails, 8 when it fails none.  A panic
\* ends the loop with the reports written before it
RECURSIVE send_rows(_, _, _, _)
send_rows(c, row, fail, written) ==
    IF row >= 8 THEN [result |-> "Ok", writes |-> written]
    ELSE LET report == frame_report(c, row) IN
         IF report = None THEN [result |-> "Panic", writes |-> written]
         ELSE LET w == Append(written, report[1]) IN
              IF fail = row THEN [result |-> "HidAPI", writes |-> w]
              ELSE send_rows(c, row + 2, fail, w)

\* variant: the flag is cleared before the chunks are written
send_frame_clear_first(d, fail) ==
    LET sent == IF is_dirty(d.display)
                THEN send_rows(d.display, 0, fail, <<>>)
                ELSE [result |-> "Ok", writes |-> <<>>]
    IN [d |-> [d EXCEPT !.display = clear_dirty_flag(@).c],
        result |-> sent.result, writes |-> sent.writes]

send_frame(d, fail) ==
    LET sent == IF is_dirty(d.display)
                THEN send_rows(d.display, 0, fail, <<>>)
                ELSE [result |-> "Ok", writes |-> <<>>]
    IN IF sent.result # "Ok"
       THEN [d |-> d, result |-> sent.result, writes |-> sent.writes]
       ELSE [d |-> [d EXCEPT !.display = clear_dirty_flag(@).c],
             result |-> "Ok", writes |-> sent.writes]

\* variant: the flag is cleared whether the write succeeds or not
send_leds_clear_always(d, ok) ==
    LET report == [header |-> <<LED_ADDR>>, bytes |-> d.leds] IN
    [d |-> [d EXCEPT !.leds_dirty = FALSE],
     result |-> IF d.leds_dirty /\ ~ok THEN "HidAPI" ELSE "Ok",
     writes |-> IF d.leds_dirty THEN <<report>> ELSE <<>>]

send_leds(d, ok) ==
    LET report == [header |-> <<LED_ADDR>>, bytes |-> d.leds] IN
    IF d.leds_dirty /\ ~ok
    THEN [d |-> d, result |-> "HidAPI", writes |-> <<report>>]
    ELSE [d |-> [d EXCEPT !.leds_dirty = FALSE],
          result |-> "Ok",
          writes |-> IF d.leds_dirty THEN <<report>> ELSE <<>>]

\* what one device.read leaves in the input buffer
fill_buffer(buffer, data) ==
    data \o SubSeq(buffer, Len(data) + 1, Len(buffer))

\* variant: a pad report is decoded on every attempt
read_attempt_every(s, script, idx) ==
    IF script[idx].err
    THEN [s EXCEPT !.result = "HidAPI", !.reads = idx + 1]
    ELSE LET bytes_read == Len(script[idx].data)
             buf == fill_buffer(s.buffer, script[idx].data)
             buttons == bytes_read > 0 /\ buf[1] = 1
             pads == ~buttons /\ bytes_read > 0 /\ buf[1] = 32
             r == IF buttons THEN process_buttons(s.d, SubSeq(buf, 2, 6))
                  ELSE IF pads
                  THEN process_pads(s.d, SubSeq(buf, 2, Len(buf)))
                  ELSE [d |-> s.d, result |-> "Ok"]
             dec == IF buttons
                    THEN Append(s.decoded, [idx |-> idx, tag |-> 1,
                                            payload |-> SubSeq(buf, 2, 6)])
                    ELSE IF pads
                    THEN Append(s.decoded, [idx |-> idx, tag |-> 32,
                                            payload |-> SubSeq(buf, 2, 65)])
                    ELSE s.decoded
         IN [d |-> r.d, buffer |-> buf, result |-> r.result,
             reads |-> idx + 1, decoded |-> dec]

\* the body of the read loop for attempt idx; script[idx] is what the
\* transport answers to it.  s holds the driver, the input buffer, the
\* result so far, the reads made and the reports handed to the decoder
read_attempt(s, script, idx) ==
    IF script[idx].err
    THEN [s EXCEPT !.result = "HidAPI", !.reads = idx + 1]
    ELSE LET bytes_read == Len(script[idx].data)
             buf == fill_buffer(s.buffer, script[idx].data)
             buttons == bytes_read > 0 /\ buf[1] = 1
             pads == ~buttons /\ bytes_read > 0 /\ buf[1] = 32
                     /\ idx % PadCadence = 0
             r == IF buttons THEN process_buttons(s.d, SubSeq(buf, 2, 6))
                  ELSE IF pads
                  THEN process_pads(s.d, SubSeq(buf, 2, Len(buf)))
                  ELSE [d |-> s.d, result |-> "Ok"]
             dec == IF buttons
                    THEN Append(s.decoded, [idx |-> idx, tag |-> 1,
                                            payload |-> SubSeq(buf, 2, 6)])
                    ELSE IF pads
                    THEN Append(s.decoded, [idx |-> idx, tag |-> 32,
                                            payload |-> SubSeq(buf, 2, 65)])
                    ELSE s.decoded
         IN [d |-> r.d, buffer |-> buf, result |-> r.result,
             reads |-> idx + 1, decoded |-> dec]

\* the read loop, for idx in lo..hi - 1, left at the first error.  The
\* attempts run in order; the range is split in halves so that the
\* evaluation of 32 attempts nests five deep instead of 32
RECURSIVE read_loop(_, _, _, _)
read_loop(s, script, lo, hi) ==
    IF s.result # "Ok" \/ lo >= hi THEN s
    ELSE IF hi - lo = 1 THEN read_attempt(s, script, lo)
    ELSE LET mid == (lo + hi) \div 2
         IN read_loop(read_loop(s, script, lo, mid), script, mid, hi)

\* read: the reports it handed to the decoder are kept for the history
read(d, script) ==
    LET s == read_loop([d |-> d,
                        buffer |-> [i \in 1..INPUT_BUFFER_SIZE |-> 0],
                        result |-> "Ok", reads |-> 0, decoded |-> <<>>],
                       script, 0, ReadAttempts)
    IN [d |-> s.d, result |-> s.result, reads |-> s.reads,
        decoded |-> s.decoded]

\* variant: the display phase goes on to write the LED report
tick_combined(d, transport) ==
    LET frame == send_frame(d, transport)
        r == IF d.tick_state = 0
             THEN IF frame.result # "Ok"
                  THEN frame @@ [decoded |-> <<>>, reads |-> 0]
                  ELSE [send_leds(frame.d, TRUE) EXCEPT
                           !.writes = frame.writes \o @]
                       @@ [decoded |-> <<>>, reads |-> 0]
             ELSE IF d.tick_state = 1
             THEN send_leds(d, transport) @@ [decoded |-> <<>>, reads |-> 0]
             ELSE read(d, transport) @@ [writes |-> <<>>]
    IN IF r.result # "Ok"
       THEN [d |-> r.d, result |-> r.result, writes |-> r.writes,
             decoded |-> r.decoded, reads |-> r.reads]
       ELSE [d |-> [r.d EXCEPT !.tick_state = (@ + 1) % 3],
             result |-> "Ok", writes |-> r.writes, decoded |-> r.decoded,
             reads |-> r.reads]

\* variant: the error of a phase is dropped
tick_swallow(d, transport) ==
    LET r == IF d.tick_state = 0
             THEN send_frame(d, transport) @@ [decoded |-> <<>>, reads |-> 0]
             ELSE IF d.tick_state = 1
             THEN send_leds(d, transport) @@ [decoded |-> <<>>, reads |-> 0]
             ELSE read(d, transport) @@ [writes |-> <<>>]
    IN [d |-> [r.d EXCEPT !.tick_state = (@ + 1) % 3],
        result |-> "Ok", writes |-> r.writes, decoded |-> r.decoded,
        reads |-> r.reads]

\* tick: transport is what the device answers in the phase that runs: the
\* row whose write fails (display), whether the write succeeds (LED), the
\* answers to the read attempts (poll)
tick(d, transport) ==
    LET r == IF d.tick_state = 0
             THEN send_frame(d, transport) @@ [decoded |-> <<>>, reads |-> 0]
             ELSE IF d.tick_state = 1
             THEN send_leds(d, transport) @@ [decoded |-> <<>>, reads |-> 0]
             ELSE read(d, transport) @@ [writes |-> <<>>]
    IN IF r.result # "Ok"
       THEN [d |-> r.d, result |-> r.result, writes |-> r.writes,
             decoded |-> r.decoded, reads |-> r.reads]
       ELSE [d |-> [r.d EXCEPT !.tick_state = (@ + 1) % 3],
             result |-> "Ok", writes |-> r.writes, decoded |-> r.decoded,
             reads |-> r.reads]

-----------------------------------------------------------------------------
(* display.rs: MonochromeCanvas.  An operation yields the canvas it leaves  *)
(* and its result; an index outside the buffer or outside a glyph is a     *)
(* panic, which leaves the canvas as it was at the failing access.         *)

\* the byte a Pixel fills with
fill_value(colour) == IF colour = "On" THEN 255 ELSE 0

\* operator ! on u8
Not(byte) == 255 - byte

\* whether buffer[start..end] is a slice of the buffer
slice_ok(c, start, end) == start <= end /\ end <= data_size(c)

\* variant: a logical rather than a bitwise complement of each byte
invert_logical(c) ==
    [c |-> [c EXCEPT !.buffer = [i \in DOMAIN @ |->
                                   IF @[i] = 0 THEN 255 ELSE 0],
                     !.dirty = TRUE],
     result |-> "Ok"]

invert(c) ==
    [c |-> [c EXCEPT !.buffer = [i \in DOMAIN @ |-> Not(@[i])],
                     !.dirty = TRUE],
     result |-> "Ok"]

invert_row(c, row) ==
    LET start == row * c.width
        end == start + c.width
    IN IF ~slice_ok(c, start, end) THEN [c |-> c, result |-> "Panic"]
       ELSE [c |-> [c EXCEPT !.buffer = [i \in DOMAIN @ |->
                                           IF i >= start /\ i < end
                                           THEN Not(@[i]) ELSE @[i]]],
             result |-> "Ok"]

invert_row_slice(c, row, start_col, end_col) ==
    LET start == row * c.width + start_col
        end == start + (end_col - start_col)
    IN IF end_col < start_col \/ ~slice_ok(c, start, end)
       THEN [c |-> c, result |-> "Panic"]
       ELSE [c |-> [c EXCEPT !.buffer = [i \in DOMAIN @ |->
                                           IF i >= start /\ i < end
                                           THEN Not(@[i]) ELSE @[i]]],
             result |-> "Ok"]

fill(c, colour) ==
    LET value == fill_value(colour) IN
    [c |-> [c EXCEPT !.buffer = [i \in DOMAIN @ |-> value],
                     !.dirty = TRUE],
     result |-> "Ok"]

fill_row(c, row, colour) ==
    LET value == fill_value(colour)
        start == row * c.width
        end == start + c.width
    IN IF ~slice_ok(c, start, end) THEN [c |-> c, result |-> "Panic"]
       ELSE [c |-> [c EXCEPT !.buffer = [i \in DOMAIN @ |->
                                           IF i >= start /\ i < end
                                           THEN value ELSE @[i]],
                             !.dirty = TRUE],
             result |-> "Ok"]

fill_rows(c, start_row, end_row, colour) ==
    LET value == fill_value(colour)
        start == start_row * c.width
        end == end_row * c.width
    IN IF ~slice_ok(c, start, end) THEN [c |-> c, result |-> "Panic"]
       ELSE [c |-> [c EXCEPT !.buffer = [i \in DOMAIN @ |->
                                           IF i >= start /\ i < end
                                           THEN value ELSE @[i]],
                             !.dirty = TRUE],
             result |-> "Ok"]

set_pixel(c, x, y, colour) ==
    LET width == c.width
        height == c.height
        byte_index == (width * Shr(y, 3)) + x
        bit == Shl8(1, BitAnd(y, 7))
    IN IF (x > width) \/ (y > height) THEN [c |-> c, result |-> "Ok"]
       ELSE IF byte_index >= data_size(c) THEN [c |-> c, result |-> "Panic"]
       ELSE [c |-> [c EXCEPT !.buffer[byte_index] =
                                 IF colour = "On" THEN BitOr(@, bit)
                                 ELSE BitAnd(@, Not(bit)),
                             !.dirty = TRUE],
             result |-> "Ok"]

pixel(c, x, y) ==
    LET byte_index == (c.width * Shr(y, 3)) + x IN
    IF (x > c.width) \/ (y > c.height)
    THEN [c |-> c, result |-> "Ok", value |-> None]
    ELSE IF byte_index >= data_size(c)
    THEN [c |-> c, result |-> "Panic", value |-> None]
    ELSE LET px == Shr(c.buffer[byte_index], BitAnd(BitAnd(y, 7), 1)) IN
         [c |-> c, result |-> "Ok",
          value |-> Some(IF px = 0 THEN "Off" ELSE "On")]

\* copy_from: source is the canvas copied from
copy_from(c, source) ==
    [c |-> [c EXCEPT !.buffer = source.buffer], result |-> "Ok"]

\* the glyph loop of print_char: for slice in 0..width
RECURSIVE print_slices(_, _, _, _, _, _, _)
print_slices(c, row, col, width, glyph, colour, slice) ==
    IF slice >= width
    THEN [c |-> [c EXCEPT !.dirty = TRUE], result |-> "Ok", advance |-> width]
    ELSE LET at == (row * c.width) + col + slice IN
         IF slice >= Len(glyph) \/ at >= data_size(c)
         THEN [c |-> c, result |-> "Panic", advance |-> 0]
         ELSE print_slices(
                 [c EXCEPT !.buffer[at] =
                              IF colour = "On" THEN Shl8(glyph[slice + 1], 2)
                              ELSE Not(Shl8(glyph[slice + 1], 2))],
                 row, col, width, glyph, colour, slice + 1)

\* print_char: t is the character code, font maps char_idx to (width, glyph)
print_char(c, t, row, col, font, colour) ==
    LET raw == t IN
    IF raw < 32 \/ raw > 127
    THEN [c |-> c, result |-> "Ok", advance |-> 0]
    ELSE LET char_idx == raw - 32 IN
         print_slices(c, row, col, font[char_idx].width,
                      font[char_idx].glyph, colour, 0)

\* variant: the body of the loop of print moves to the start of the next
\* row when the glyph would pass the right edge
print_step_wrap(st, t, font, colour) ==
    IF t = 10
    THEN [st EXCEPT !.row = @ + 1, !.col = 0]
    ELSE LET width == IF t < 32 \/ t > 127 THEN 0 ELSE font[t - 32].width
             wrap == st.col + width > st.c.width
             row == IF wrap THEN st.row + 1 ELSE st.row
             col == IF wrap THEN 0 ELSE st.col
             r == print_char(st.c, t, row, col, font, colour)
         IN IF r.result # "Ok"
            THEN [st EXCEPT !.c = r.c, !.result = r.result]
            ELSE [c |-> r.c, result |-> "Ok", row |-> row,
                  col |-> col + r.advance + 1]

\* the body of the loop of print: t is the code of the character c, st the
\* canvas with the cursor (row, col) of the loop
print_step(st, t, font, colour) ==
    IF t = 10
    THEN [st EXCEPT !.row = @ + 1, !.col = 0]
    ELSE LET r == print_char(st.c, t, st.row, st.col, font, colour) IN
         IF r.result # "Ok"
         THEN [st EXCEPT !.c = r.c, !.result = r.result]
         ELSE [c |-> r.c, result |-> "Ok", row |-> st.row,
               col |-> st.col + r.advance + 1]

\* the loop of print: for c in s.chars(), from the k-th character on
RECURSIVE print_chars(_, _, _, _, _)
print_chars(st, s, k, font, colour) ==
    IF st.result # "Ok" \/ k > Len(s) THEN st
    ELSE print_chars(print_step(st, s[k], font, colour), s, k + 1, font,
                     colour)

\* Canvas::print: s is the sequence of the character codes of the string
print(c, s, row, col, font, colour) ==
    LET st == print_chars([c |-> c, result |-> "Ok", row |-> row,
                           col |-> col], s, 1, font, colour)
    IN [c |-> st.c, result |-> st.result]

\* the assignments buffer[dst] = buffer[src] (buffer[dst] = 0 when src is
\* -1) of the loops of vscroll_rows, the lo-th up to the one before the
\* hi-th in the order the loops make them, applied to the canvas of r while
\* none has panicked; of a longer run of assignments the first half is
\* evaluated first
RECURSIVE move_bytes(_, _, _, _)
move_bytes(r, moves, lo, hi) ==
    IF lo >= hi \/ ~Evaluated(r) \/ r.result # "Ok" THEN r
    ELSE IF hi - lo = 1
    THEN LET dst == moves[lo][1]
             src == moves[lo][2]
         IN IF dst \notin DOMAIN r.c.buffer
               \/ (src # -1 /\ src \notin DOMAIN r.c.buffer)
            THEN [c |-> r.c, result |-> "Panic"]
            ELSE [c |-> [r.c EXCEPT !.buffer[dst] =
                                       IF src = -1 THEN 0 ELSE r.c.buffer[src]],
                  result |-> "Ok"]
    ELSE LET mid == (lo + hi) \div 2
         IN move_bytes(move_bytes(r, moves, lo, mid), moves, mid, hi)

\* variant: the Up loop copies in ascending order
vscroll_rows_ascending(c, row_start, row_end, direction) ==
    LET lo == IF row_start < row_end THEN row_start ELSE row_end
        hi == IF row_start < row_end THEN row_end ELSE row_start
        start == lo * c.width
        end == hi * c.width
        up == [k \in 1..(end - start) |->
                  <<start + k - 1 + c.width, start + k - 1>>]
              \o [k \in 1..c.width |-> <<start + k - 1, -1>>]
        down == [k \in 1..(end - start) |->
                    <<start + k - 1, start + k - 1 + c.width>>]
                \o [k \in 1..c.width |-> <<end + k - 1, -1>>]
        moves == IF direction = "Up" THEN up ELSE down
        moved == move_bytes([c |-> c, result |-> "Ok"], moves, 1,
                            Len(moves) + 1)
    IN IF moved.result # "Ok" THEN moved
       ELSE [c |-> [moved.c EXCEPT !.dirty = TRUE], result |-> "Ok"]

vscroll_rows(c, row_start, row_end, direction) ==
    LET lo == IF row_start < row_end THEN row_start ELSE row_end
        hi == IF row_start < row_end THEN row_end ELSE row_start
        start == lo * c.width
        end == hi * c.width
        up == [k \in 1..(end - start) |-> <<(end - k) + c.width, end - k>>]
              \o [k \in 1..c.width |-> <<start + k - 1, -1>>]
        down == [k \in 1..(end - start) |->
                    <<start + k - 1, start + k - 1 + c.width>>]
                \o [k \in 1..c.width |-> <<end + k - 1, -1>>]
        moves == IF direction = "Up" THEN up ELSE down
        moved == move_bytes([c |-> c, result |-> "Ok"], moves, 1,
                            Len(moves) + 1)
    IN IF moved.result # "Ok" THEN moved
       ELSE [c |-> [moved.c EXCEPT !.dirty = TRUE], result |-> "Ok"]

-----------------------------------------------------------------------------
(* Inputs *)

\* button payloads: mask bytes 0..3 and the encoder byte.  The buttons
\* pressed are Shift, Erase, the unused slot 8 and Scene: buttons without
\* an LED or with a mono one, so that the presses the caller answers with a
\* random colour have two outcomes each
ButtonMasks ==
    {<<b0, 0, 0, 0>> : b0 \in 0..3} \cup {<<b0, 1, 0, 128>> : b0 \in {0, 2}}

ButtonBuffers ==
    {m \o <<0>> : m \in ButtonMasks}
    \cup {<<1, 0, 0, 0, EncoderMax>>, <<2, 0, 0, 0, EncoderMax>>}
    \cup {<<1, 0, 0, 0>>}

\* button payloads that turn the encoder: every position, and the last one
\* with Shift or Erase down
EncoderBuffers ==
    {<<0, 0, 0, 0, e>> : e \in 0..EncoderMax}
    \cup {<<1, 0, 0, 0, EncoderMax>>, <<2, 0, 0, 0, EncoderMax>>}

\* the two bytes of a pad channel carrying a 12-bit value for a pad
Channel(pad, value) == <<value % 256, pad * 16 + value \div 256>>

PadValues == {256, 512, 513, 4095}

\* pad payloads of 64 bytes: the first and the last of the 16 channels vary,
\* the channels between them report pad 1 at rest, bytes 32..63 are zero
PadPayload(first, final) ==
    first \o [i \in 1..28 |-> IF i % 2 = 1 THEN 0 ELSE 16] \o final
          \o [i \in 1..32 |-> 0]

PadBuffers ==
    {PadPayload(Channel(p, v), Channel(q, w)) :
        p \in {2, 15}, v \in PadValues, q \in {2, 15}, w \in {256, 4095}}
    \cup {[i \in 1..63 |-> 255]}

Colours ==
    {BLACK, WHITE, Colour(1, 0, 0), Colour(2, 0, 0), Colour(0, 128, 0),
     Colour(0, 0, 127)}

LedButtons == {"Erase", "Group", "MainEncoder", "Unknown"}

\* the colours Colour::random() yields: three bytes of the generator, so
\* every colour
RandomColours == [r : 0..255, g : 0..255, b : 0..255]

\* the colours set_button_led tells apart for a button, one of each kind: a
\* button without an LED ignores the colour, a mono LED stores as_1bit of
\* it, which is 0x00 or 0xFF, and an RGB LED (Group) stores the three
\* channels, so that every colour is a kind of its own
RandomDraws(button) ==
    LET led == button_to_led(button)
        dim == Colour(64, 0, 127)
        bright == Colour(250, 116, 38)
    IN IF led = None THEN {dim}
       ELSE IF is_rgb_led(led[1]) THEN RandomColours
       ELSE {dim, bright}

LedPads == {15, 16}

\* input reports as the transport delivers them: the tag byte, the payload
ButtonReport(payload) == <<1>> \o payload

PadReport(payload) == <<32>> \o payload

TickReports ==
    {ButtonReport(<<3, 0, 0, 0, 1>>), ButtonReport(<<0, 0, 0, 0, 0>>),
     PadReport(PadPayload(Channel(2, 4095), Channel(15, 256))),
     PadReport(PadPayload(Channel(2, 256), Channel(15, 256))),
     <<2, 255>>}

Answer(data) == [err |-> FALSE, data |-> data]

\* the transport's answers to the read attempts of a poll phase: one report
\* at attempt at, a failure at attempt fail (none when fail = ReadAttempts),
\* zero bytes read everywhere else
PollScript(at, report, fail) ==
    [idx \in 0..(ReadAttempts - 1) |->
        IF idx = fail THEN [err |-> TRUE, data |-> <<>>]
        ELSE IF idx = at THEN Answer(report)
        ELSE Answer(<<>>)]

\* the poll phases of the driver in use: the button reports and the report
\* of an unknown kind; the pad reports are delivered in the poll phases of
\* PollScripts2
PollScripts ==
    {PollScript(at, report, fail) :
        at \in {0, 1},
        report \in {report \in TickReports : report[1] # 32},
        fail \in {1, ReadAttempts}}

\* canvases: (width, height); 3 x 3 has a size that 8 does not divide
CanvasSizes == {<<2, 16>>, <<3, 3>>}

Pixels == {"On", "Off"}

\* pixel coordinates: inside, on and beyond the edges of the canvases
PixelXs == {0, 2, 3}

PixelYs == {1, 16, 17}

\* band rows: the last one is outside the canvases
BandRows == {1, 2}

\* a font: the glyph of 'A' is two columns wide, every other one empty
FontA ==
    [char_idx \in 0..95 |->
        IF char_idx = 33 THEN [width |-> 2, glyph |-> <<126, 9, 9, 9, 126>>]
        ELSE [width |-> 0, glyph |-> <<0, 0, 0, 0, 0>>]]

\* a font of two glyphs: 'A' is two columns wide and 'I' one; every other
\* entry, the space and the last one among them, is empty
FontAI ==
    [char_idx \in 0..95 |->
        IF char_idx = 33 THEN [width |-> 2, glyph |-> <<62, 9, 0, 0, 0>>]
        ELSE IF char_idx = 41 THEN [width |-> 1, glyph |-> <<63, 0, 0, 0, 0>>]
        ELSE [width |-> 0, glyph |-> <<0, 0, 0, 0, 0>>]]

\* the characters printed: newline, the code below the table, 'A', 'I' and
\* the code above the table
PrintChars == {10, 31, 65, 73, 128}

\* the longest of the strings of every choice of characters
MaxPrintLen == 2

\* further strings: the first and the last code of the table, glyphs that
\* pass the right edge of a canvas four columns wide and the end of its
\* buffer, newlines between glyphs and past the last band row, characters
\* outside the table between glyphs
LongStrings ==
    {<<32>>, <<127>>, <<32, 65>>, <<65, 127, 73>>,
     <<65, 65, 65>>, <<65, 65, 65, 65>>, <<65, 10, 73>>, <<73, 65, 10, 65>>,
     <<128, 65, 31, 73>>, <<10, 10, 73>>, <<73, 73, 73>>, <<65, 10, 10>>,
     <<65, 65, 128, 10, 73>>}

PrintStrings ==
    UNION {[1..n -> PrintChars] : n \in 0..MaxPrintLen} \cup LongStrings

\* payloads for the length checks of the decoder: too short ones and
\* well-formed ones
ShortButtonBuffers ==
    {<<>>, <<255>>, <<255, 255, 255, 255>>, <<2, 0, 0, 0, 3>>,
     <<0, 0, 0, 0, 0>>, <<3, 0, 0, 128, 3>>}

ShortPadBuffers ==
    {<<>>, <<255, 255>>, [i \in 1..63 |-> 255],
     PadPayload(Channel(2, 4095), Channel(15, 256)),
     PadPayload(Channel(2, 256), Channel(15, 4095))}

\* colours: every channel at its ends, its middle and neighbours of them
ColourInputs == {Colour(r, g, b) : r, g, b \in {0, 1, 127, 128, 254, 255}}

-----------------------------------------------------------------------------
(* State machine *)

\* the button ids of the event model
ButtonIds == {as_device_button(btn) : btn \in 1..(BUTTON_NONE - 1)}

\* the row at which the write of the last display phase failed, None when
\* no tick ran yet or the last tick did not fail in the display phase
Unsent ==
    IF last.op = "tick"
    THEN IF last.old.tick_state = 0 /\ last.result = "HidAPI"
         THEN Some(last.arg) ELSE None
    ELSE last.unsent

\* the history record: the operation, its input, its result, the device
\* record it was applied to and the failed row that was left before it
History(op, arg, result) ==
    [op |-> op, arg |-> arg, result |-> result, old |-> Self,
     unsent |-> Unsent]

\* the history of button events after an operation that decoded the button
\* payloads reports (in order) and left the queue queue
Hear(reports, queue) ==
    LET new == SubSeq(queue, Len(events) + 1, Len(queue))
        at(id) == {i \in 1..Len(new) :
                      new[i].type = "ButtonChange" /\ new[i].id = id}
    IN [report |-> IF reports = <<>> THEN heard.report
                   ELSE reports[Len(reports)],
        pressed |-> [id \in ButtonIds |->
                        IF at(id) = {} THEN heard.pressed[id]
                        ELSE IF new[CHOOSE i \in at(id) :
                                       \A j \in at(id) : j <= i].value
                        THEN "pressed"
                        ELSE "released"]]

Init ==
    /\ tick_state = 0
    /\ display = MonochromeCanvas_new(128, 64)
    /\ leds = [i \in 0..(LED_COUNT - 1) |-> 0]
    /\ leds_dirty = TRUE
    /\ button_states = [i \in 0..(BUTTON_COUNT - 1) |-> FALSE]
    /\ shift_pressed = FALSE
    /\ pads_data = [i \in 0..(PAD_COUNT - 1) |-> 0]
    /\ pads_status = [i \in 0..(PAD_COUNT - 1) |-> FALSE]
    /\ encoder_value = 0
    /\ events = <<>>
    /\ wire = <<>>
    /\ reads = 0
    /\ canvas = MonochromeCanvas_new(0, 0)
    /\ last = [op |-> "new", arg |-> <<>>, result |-> "Ok", old |-> Self,
               unsent |-> None]
    /\ heard = [report |-> <<>>, pressed |-> [id \in ButtonIds |-> "none"]]
    /\ transmitted = None
    /\ dispatched = <<>>

\* a button report is decoded into the caller's context
ProcessButtonsOf(buffers) ==
    /\ Len(events) <= MaxPending
    /\ \E buffer \in buffers :
          \E r \in {process_buttons(Self, buffer)} :
             /\ Store(r.d)
             /\ last' = History("process_buttons", buffer, r.result)
             /\ heard' = Hear(IF r.result = "Ok" THEN <<buffer>> ELSE <<>>,
                              r.d.events)
    /\ wire' = <<>> /\ reads' = 0 /\ dispatched' = <<>>
    /\ UNCHANGED <<canvas, transmitted>>

\* a pad report is decoded into the caller's context
ProcessPadsOf(buffers) ==
    /\ Len(events) <= MaxPending
    /\ \E buffer \in buffers :
          \E r \in {process_pads(Self, buffer)} :
             /\ Store(r.d)
             /\ last' = History("process_pads", buffer, r.result)
    /\ wire' = <<>> /\ reads' = 0 /\ dispatched' = <<>>
    /\ UNCHANGED <<canvas, heard, transmitted>>

\* Controller::set_button_led
SetButtonLedOf(buttons, colours) ==
    /\ last.result # "Panic"
    /\ \E button \in buttons, colour \in colours :
          \E d \in {set_button_led(Self, button, colour)} :
             /\ Store(d)
             /\ last' = History("set_button_led", <<button, colour>>, "Ok")
    /\ wire' = <<>> /\ reads' = 0 /\ dispatched' = <<>>
    /\ UNCHANGED <<canvas, heard, transmitted>>

\* Controller::set_pad_led
SetPadLedOf(pads, colours) ==
    /\ \E pad \in pads, colour \in colours :
          \E d \in {set_pad_led(Self, pad, colour)} :
             /\ Store(d)
             /\ last' = History("set_pad_led", <<pad, colour>>, "Ok")
    /\ wire' = <<>> /\ reads' = 0 /\ dispatched' = <<>>
    /\ UNCHANGED <<canvas, heard, transmitted>>

\* the caller draws on the display field of the driver: Canvas::fill
CanvasFill(colours) ==
    /\ last.result # "Panic"
    /\ \E colour \in colours :
          /\ Store([Self EXCEPT !.display = fill(@, colour).c])
          /\ last' = History("display.fill", <<colour>>, "Ok")
    /\ wire' = <<>> /\ reads' = 0 /\ dispatched' = <<>>
    /\ UNCHANGED <<canvas, heard, transmitted>>

\* the caller clears the dirty flag of the display field:
\* MonochromeCanvas::clear_dirty_flag
CanvasClearDirtyFlag ==
    /\ last.result # "Panic"
    /\ Store([Self EXCEPT !.display = clear_dirty_flag(@).c])
    /\ last' = History("display.clear_dirty_flag", <<>>, "Ok")
    /\ wire' = <<>> /\ reads' = 0 /\ dispatched' = <<>>
    /\ UNCHANGED <<canvas, heard, transmitted>>

\* the caller copies a canvas into the display field:
\* MonochromeCanvas::copy_from
CanvasCopyFrom(sources) ==
    /\ last.result # "Panic"
    /\ \E source \in sources :
          /\ Store([Self EXCEPT !.display = copy_from(@, source).c])
          /\ last' = History("display.copy_from", data_size(source), "Ok")
    /\ wire' = <<>> /\ reads' = 0 /\ dispatched' = <<>>
    /\ UNCHANGED <<canvas, heard, transmitted>>

\* the buffer of the display as the driver constructs it: no pixel is set
Blank == MonochromeCanvas_new(128, 64).buffer

\* the caller draws on the display field of the driver with a method of
\* trait Canvas: r is what the method yields of the display.  A panic of
\* the method ends the program.  The display drawn on is a blank one, as
\* constructed or as fill left it, clean or dirty, so that the number of
\* displays drawn on is bounded
Draw(op, arg, r) ==
    /\ last.result # "Panic"
    /\ display.buffer = Blank
    /\ Store([Self EXCEPT !.display = r.c])
    /\ last' = History(op, arg, r.result)
    /\ wire' = <<>> /\ reads' = 0 /\ dispatched' = <<>>
    /\ UNCHANGED <<canvas, heard, transmitted>>

\* Canvas::invert on the display field
CanvasInvert == Draw("display.invert", <<>>, invert(display))

\* Canvas::invert_row on the display field
CanvasInvertRow(rows) ==
    \E row \in rows :
       Draw("display.invert_row", <<row>>, invert_row(display, row))

\* Canvas::invert_row_slice on the display field: slices are (row,
\* start_col, end_col)
CanvasInvertRowSlice(slices) ==
    \E slice \in slices :
       Draw("display.invert_row_slice", slice,
            invert_row_slice(display, slice[1], slice[2], slice[3]))

\* Canvas::fill_row on the display field
CanvasFillRow(rows, colours) ==
    \E row \in rows, colour \in colours :
       Draw("display.fill_row", <<row, colour>>,
            fill_row(display, row, colour))

\* Canvas::fill_rows on the display field: ranges are (start_row, end_row)
CanvasFillRows(ranges, colours) ==
    \E rows \in ranges, colour \in colours :
       Draw("display.fill_rows", <<rows[1], rows[2], colour>>,
            fill_rows(display, rows[1], rows[2], colour))

\* Canvas::set_pixel on the display field: points are (x, y)
CanvasSetPixel(points, colours) ==
    \E point \in points, colour \in colours :
       Draw("display.set_pixel", <<point[1], point[2], colour>>,
            set_pixel(display, point[1], point[2], colour))

\* Canvas::print_char on the display field, at band row 0 and column 0
CanvasPrintChar(codes) ==
    \E t \in codes :
       Draw("display.print_char", <<t, 0, 0, "On">>,
            print_char(display, t, 0, 0, FontA, "On"))

\* Canvas::print on the display field, from band row 0 and column 0
CanvasPrint(strings) ==
    \E string \in strings :
       Draw("display.print", <<string, 0, 0, "On">>,
            print(display, string, 0, 0, FontAI, "On"))

\* Canvas::vscroll_rows on the display field: ranges are (row_start,
\* row_end)
CanvasVscrollRows(ranges, directions) ==
    \E rows \in ranges, direction \in directions :
       Draw("display.vscroll_rows", <<rows[1], rows[2], direction>>,
            vscroll_rows(display, rows[1], rows[2], direction))

\* a call of tick with the transport answering as given; the program ends
\* with a panic
TickStep(transport) ==
    /\ last.result # "Panic"
    /\ \E r \in {tick(Self, transport)} :
          /\ Store(r.d)
          /\ wire' = r.writes
          /\ reads' = r.reads
          /\ UNCHANGED canvas
          /\ last' = History("tick", transport, r.result)
          /\ heard' = Hear([i \in 1..Len(SelectSeq(r.decoded,
                                                  LAMBDA e : e.tag = 1)) |->
                               SelectSeq(r.decoded,
                                         LAMBDA e : e.tag = 1)[i].payload],
                           r.d.events)
          /\ dispatched' = r.decoded

\* a call of tick
TickWith(transport) == TickStep(transport) /\ UNCHANGED transmitted

\* a call of tick observed at the transport: the table of an LED report the
\* transport accepted is kept
TickObserved(transport) ==
    /\ TickStep(transport)
    /\ transmitted' = IF tick_state = 1 /\ last'.result = "Ok" /\ wire' # <<>>
                      THEN Some(wire'[1].bytes)
                      ELSE transmitted

\* tick in the display phase
TickDisplay ==
    /\ tick_state = 0
    /\ \E fail \in {0, 2, 4, 6, 8} : TickWith(fail)

\* tick in the LED phase
TickLeds ==
    /\ tick_state = 1
    /\ \E ok \in BOOLEAN : TickWith(ok)

\* tick in the poll phase
TickPoll ==
    /\ tick_state = 2
    /\ Len(events) <= MaxPending
    /\ \E script \in PollScripts : TickWith(script)

\* what Colour::random() yields while the events of a queue are handled
\* from the k-th on: a sequence with the colour drawn for every event that
\* is a press (and BLACK, which is not used, for every other event)
RECURSIVE Draws(_, _)
Draws(queue, k) ==
    IF k > Len(queue) THEN {<<>>}
    ELSE LET here == IF queue[k].type = "ButtonChange" /\ queue[k].value
                     THEN RandomDraws(queue[k].id)
                     ELSE {BLACK}
         IN {<<colour>> \o rest : colour \in here, rest \in Draws(queue, k + 1)}

\* the caller handles the events of its context (example/src/main.rs)
DrainEvents ==
    /\ events # <<>>
    /\ last.result # "Panic"
    /\ \E rnd \in Draws(events, 1) :
          Store(handle_events(Self, rnd, 1))
    /\ last' = History("drain", <<>>, "Ok")
    /\ wire' = <<>> /\ reads' = 0 /\ dispatched' = <<>>
    /\ UNCHANGED <<canvas, heard, transmitted>>

\* the history record of a canvas operation: old is the canvas it was
\* applied to, value what pixel returned, before the buffer the preceding
\* invert was applied to when this operation is an invert as well
CanvasHistory(op, arg, r) ==
    [op |-> op, arg |-> arg, result |-> r.result, old |-> canvas,
     value |-> IF "value" \in DOMAIN r THEN r.value ELSE None,
     before |-> IF op = "invert" /\ last.op = "invert"
                THEN <<last.old.buffer>> ELSE <<>>]

\* a canvas operation acts on the caller's canvas only
CanvasOp(op, arg, r) ==
    /\ canvas' = r.c
    /\ last' = CanvasHistory(op, arg, r)
    /\ UNCHANGED <<tick_state, display, leds, leds_dirty, button_states,
                   shift_pressed, pads_data, pads_status, encoder_value,
                   events, wire, reads, heard, transmitted, dispatched>>

\* MonochromeCanvas::new
CanvasNewOf(sizes) ==
    \E size \in sizes :
       CanvasOp("new", size, [c |-> MonochromeCanvas_new(size[1], size[2]), result |-> "Ok"])

ClearDirtyFlag == CanvasOp("clear_dirty_flag", <<>>, clear_dirty_flag(canvas))

Invert == CanvasOp("invert", <<>>, invert(canvas))

InvertRow ==
    \E row \in BandRows : CanvasOp("invert_row", <<row>>, invert_row(canvas, row))

\* the columns of the slice: in order, and the end before the start
InvertRowSlice ==
    \E cols \in {<<1, 2>>, <<1, 0>>} :
       CanvasOp("invert_row_slice", <<0, cols[1], cols[2]>>,
                invert_row_slice(canvas, 0, cols[1], cols[2]))

Fill == \E colour \in Pixels : CanvasOp("fill", <<colour>>, fill(canvas, colour))

FillRow ==
    \E row \in BandRows :
       CanvasOp("fill_row", <<row, "On">>, fill_row(canvas, row, "On"))

\* the band rows of the range: in order, and the end before the start
FillRows ==
    \E rows \in {<<1, 2>>, <<1, 0>>} :
       CanvasOp("fill_rows", <<rows[1], rows[2], "Off">>,
                fill_rows(canvas, rows[1], rows[2], "Off"))

SetPixel ==
    \E x \in PixelXs, y \in PixelYs, colour \in Pixels :
       CanvasOp("set_pixel", <<x, y, colour>>, set_pixel(canvas, x, y, colour))

GetPixel ==
    \E x \in PixelXs, y \in PixelYs :
       CanvasOp("pixel", <<x, y>>, pixel(canvas, x, y))

\* the canvases copied from: one of the size of a 2 x 16 canvas, one
\* smaller
CopyFrom ==
    \E source \in {fill(MonochromeCanvas_new(2, 16), "On").c,
                   MonochromeCanvas_new(3, 8)} :
       CanvasOp("copy_from", source, copy_from(canvas, source))

\* the character codes: below the table, 'A', above the table
PrintChar ==
    \E t \in {31, 65, 128} :
       CanvasOp("print_char", <<t, 1, 0, "On">>,
                print_char(canvas, t, 1, 0, FontA, "On"))

\* a canvas every byte of which is the same: a new one or a filled one
Uniform(c) == \A i, j \in DOMAIN c.buffer : c.buffer[i] = c.buffer[j]

\* Canvas::print (row, col: where printing starts), on a canvas of one fill
\* value, so that the number of canvases printed on is bounded
PrintString ==
    /\ Uniform(canvas)
    /\ \E s \in PrintStrings, start \in {<<0, 0>>, <<1, 2>>},
          colour \in Pixels :
       CanvasOp("print", <<s, start[1], start[2], colour>>,
                print(canvas, s, start[1], start[2], FontAI, colour))

VscrollRowsOf(ranges) ==
    \E rows \in ranges, direction \in {"Up", "Down"} :
       CanvasOp("vscroll_rows", <<rows[1], rows[2], direction>>,
                vscroll_rows(canvas, rows[1], rows[2], direction))

\* the canvas on its own
NextCanvas ==
    \/ CanvasNewOf(CanvasSizes)
    \/ ClearDirtyFlag
    \/ Invert
    \/ InvertRow
    \/ InvertRowSlice
    \/ Fill
    \/ FillRow
    \/ FillRows
    \/ SetPixel
    \/ GetPixel
    \/ CopyFrom
    \/ PrintChar
    \/ VscrollRowsOf({<<0, 1>>})

SpecCanvas == Init /\ [][NextCanvas]_vars

\* band row ranges scrolled on a canvas of three band rows: the ends given
\* in either order, one band, all bands, and one reaching past the last band
ScrollRanges == {<<0, 1>>, <<1, 0>>, <<1, 1>>, <<0, 2>>, <<2, 2>>, <<1, 3>>}

\* scrolling on its own, on a canvas of three band rows that pixels and
\* inverted rows give a content
NextScroll ==
    \/ CanvasNewOf({<<2, 24>>})
    \/ SetPixel
    \/ InvertRow
    \/ VscrollRowsOf(ScrollRanges)

SpecScroll == Init /\ [][NextScroll]_vars

\* printing on its own, on a new or filled canvas of two band rows of four
\* columns
NextPrint ==
    \/ CanvasNewOf({<<4, 16>>})
    \/ Fill
    \/ ClearDirtyFlag
    \/ PrintString

SpecPrint == Init /\ [][NextPrint]_vars

\* the decoder's length checks
NextLengths ==
    \/ ProcessButtonsOf(ShortButtonBuffers)
    \/ ProcessPadsOf(ShortPadBuffers)
    \/ DrainEvents

SpecLengths == Init /\ [][NextLengths]_vars

\* Colour::as_u24 of a colour
AsU24 ==
    /\ \E c \in ColourInputs : last' = History("as_u24", c, as_u24(c))
    /\ UNCHANGED <<tick_state, display, leds, leds_dirty, button_states,
                   shift_pressed, pads_data, pads_status, encoder_value,
                   events, wire, reads, canvas, heard,
                   transmitted, dispatched>>

\* Colour::from_u24 of the value as_u24 returned
FromU24 ==
    /\ last.op = "as_u24"
    /\ last' = History("from_u24", <<last.arg, last.result>>,
                       from_u24(last.result))
    /\ UNCHANGED <<tick_state, display, leds, leds_dirty, button_states,
                   shift_pressed, pads_data, pads_status, encoder_value,
                   events, wire, reads, canvas, heard,
                   transmitted, dispatched>>

\* the colour conversions on their own
NextColour == AsU24 \/ FromU24

SpecColour == Init /\ [][NextColour]_vars

\* the driver in use by any caller of its public calls and of its public
\* display field: the caller ticks it, handles the events, sets LEDs, draws
\* on the display with every method of Canvas that changes it, clears its
\* dirty flag and copies a canvas into it, and goes on after a tick that
\* returned an error.  Row 8 and the pixel (128, 64) are outside the
\* buffer: the call panics
Next ==
    \/ TickDisplay
    \/ TickLeds
    \/ TickPoll
    \/ DrainEvents
    \/ CanvasFill({"Off"})
    \/ CanvasClearDirtyFlag
    \/ CanvasCopyFrom({MonochromeCanvas_new(8, 8)})
    \/ CanvasInvert
    \/ CanvasInvertRow({0, 8})
    \/ CanvasInvertRowSlice({<<0, 0, 128>>})
    \/ CanvasFillRow({0}, {"On"})
    \/ CanvasFillRows({<<0, 1>>}, {"On"})
    \/ CanvasSetPixel({<<0, 0>>, <<128, 64>>}, {"On"})
    \/ CanvasPrintChar({65})
    \/ CanvasPrint({<<65>>})
    \/ CanvasVscrollRows({<<0, 1>>}, {"Up"})
    \/ SetButtonLedOf({"Erase"}, {BLACK, WHITE})

Spec == Init /\ [][Next]_vars

\* the display on its own: the three phases of tick with a transport that
\* fails writes and delivers no report, and a caller that draws on the
\* display field, clears its dirty flag and copies canvases into it: one
\* of 8 bytes, one of 512 bytes and one of the size of the display that the
\* caller has drawn on, the bytes of every chunk different from those of
\* the other chunks.  The calls that draw: inside the buffer, and outside
\* it (row 8, the pixel (128, 64), the rows 1 to 0, the columns 4 to 0),
\* which panics; the pixel (129, 0) and the character 31 are ignored
NextFrame ==
    \/ TickDisplay
    \/ TickLeds
    \/ /\ tick_state = 2
       /\ TickWith([idx \in 0..(ReadAttempts - 1) |-> Answer(<<>>)])
    \/ CanvasFill(Pixels)
    \/ CanvasClearDirtyFlag
    \/ CanvasCopyFrom({MonochromeCanvas_new(8, 8),
                       MonochromeCanvas_new(128, 32),
                       [MonochromeCanvas_new(128, 64) EXCEPT
                           !.buffer = [i \in DOMAIN @ |-> i % 251]]})
    \/ CanvasInvert
    \/ CanvasInvertRow({0, 8})
    \/ CanvasInvertRowSlice({<<0, 0, 4>>, <<0, 4, 0>>})
    \/ CanvasFillRow({0, 8}, {"On"})
    \/ CanvasFillRows({<<0, 1>>, <<1, 0>>}, {"On"})
    \/ CanvasSetPixel({<<0, 0>>, <<128, 64>>, <<129, 0>>}, {"On"})
    \/ CanvasPrintChar({31, 65})
    \/ CanvasPrint({<<65, 10, 73>>})
    \/ CanvasVscrollRows({<<0, 1>>}, {"Up", "Down"})

SpecFrame == Init /\ [][NextFrame]_vars

\* the decoder on its own: button reports
NextButtons == ProcessButtonsOf(ButtonBuffers) \/ DrainEvents

SpecButtons == Init /\ [][NextButtons]_vars

\* the encoder on its own
NextEncoder == ProcessButtonsOf(EncoderBuffers) \/ DrainEvents

SpecEncoder == Init /\ [][NextEncoder]_vars

\* the decoder on its own: pad reports
NextPads == ProcessPadsOf(PadBuffers) \/ DrainEvents

SpecPads == Init /\ [][NextPads]_vars

\* the LED mapper on its own
NextLeds ==
    \/ SetButtonLedOf(LedButtons, Colours)
    \/ SetPadLedOf(LedPads, Colours)

SpecLeds == Init /\ [][NextLeds]_vars

\* the scripts of a poll phase in which Shift is pressed, released or left
\* alone
ShiftScripts ==
    {PollScript(0, ButtonReport(<<b0, 0, 0, 0, 0>>), ReadAttempts) :
        b0 \in {0, 1}}
    \cup {[i \in 0..(ReadAttempts - 1) |-> Answer(<<>>)]}

\* the LED table in use: the caller sets LEDs, Shift is pressed and
\* released, and the transport is observed through the three phases
TickLedTable ==
    \/ tick_state = 0 /\ TickObserved(8)
    \/ tick_state = 1 /\ \E ok \in BOOLEAN : TickObserved(ok)
    \/ tick_state = 2 /\ \E script \in ShiftScripts : TickObserved(script)

NextLedTable ==
    \/ TickLedTable
    \/ SetButtonLedOf({"Erase", "Group"}, {BLACK, WHITE})
    \/ SetPadLedOf({0}, {BLACK, WHITE})

SpecLedTable == Init /\ [][NextLedTable]_vars

\* poll phases in which the transport delivers two reports, on the
\* attempts first and second
PollScript2(first, report1, second, report2) ==
    [idx \in 0..(ReadAttempts - 1) |->
        IF idx = first THEN Answer(report1)
        ELSE IF idx = second THEN Answer(report2)
        ELSE Answer(<<>>)]

PollScripts2 ==
    {PollScript2(at[1], report1, at[2], report2) :
        at \in {<<0, 7>>, <<6, 7>>, <<8, 28>>, <<14, 31>>},
        report1 \in TickReports, report2 \in TickReports}

\* the poll phase on its own: the other two phases succeed
TickPoll2 ==
    \/ tick_state = 0 /\ TickWith(8)
    \/ tick_state = 1 /\ TickWith(TRUE)
    \/ /\ tick_state = 2
       /\ Len(events) <= MaxPending
       /\ \E script \in PollScripts2 : TickWith(script)

NextPoll == TickPoll2 \/ DrainEvents

SpecPoll == Init /\ [][NextPoll]_vars

\* the events the last operation added to the queue
Emitted == SubSeq(events, Len(last.old.events) + 1, Len(events))

-----------------------------------------------------------------------------
(* The wire formats as section 6 of the specification states them, used to *)
(* state the properties below independently of the decoder.                *)

\* bit slot of the button mask of a payload (LSB first per byte)
ReportBit(buffer, slot) ==
    (buffer[(slot \div 8) + 1] \div (2 ^ (slot % 8))) % 2 = 1

\* the scanned slots that emit events, and the ones whose bit differs from
\* the snapshot the last operation started from
EventSlots == 1..(BUTTON_NONE - 1)

ChangedSlots ==
    {slot \in EventSlots :
        last.old.button_states[slot] # ReportBit(last.arg, slot)}

ShiftChanged == last.old.button_states[BUTTON_SHIFT] # ReportBit(last.arg, 0)

DecodedButtons == last.op = "process_buttons" /\ last.result = "Ok"

DecodedPads == last.op = "process_pads" /\ last.result = "Ok"

EventsOf(type) == SelectSeq(Emitted, LAMBDA e : e.type = type)

\* pad channel k (0..15) of a pad payload
Channels == 0..(PAD_COUNT - 1)

ChanPad(buffer, k) == buffer[2 * k + 2] \div 16

ChanRaw(buffer, k) == (buffer[2 * k + 2] % 16) * 256 + buffer[2 * k + 1]

ChanPressed(buffer, k) == ChanRaw(buffer, k) > 512

ChanVelocity(buffer, k) ==
    IF ChanPressed(buffer, k) THEN ChanRaw(buffer, k) \div 16 ELSE 0

\* the channels of the payload before channel k that carry the same pad
Earlier(buffer, k) ==
    {j \in Channels : j < k /\ ChanPad(buffer, j) = ChanPad(buffer, k)}

Latest(S) == CHOOSE j \in S : \A i \in S : i <= j

\* whether the pad of channel k was pressed in the channel decoded for it
\* most recently before channel k (in this payload or an earlier one)
WasPressed(buffer, k) ==
    IF Earlier(buffer, k) = {}
    THEN last.old.pads_data[ChanPad(buffer, k)] > 512
    ELSE ChanPressed(buffer, Latest(Earlier(buffer, k)))

-----------------------------------------------------------------------------
(* Properties *)

\* C1: every ButtonChange event of a decoded button report carries the bit
\* of its button in that report, the last pressed value emitted for a button
\* equals the button's bit in the most recent report, and after the decode
\* the snapshot of every scanned slot equals the slot's bit in the report.
C1_ButtonEventsCarryReportBit ==
    /\ DecodedButtons =>
          /\ \A i \in 1..Len(Emitted) :
                Emitted[i].type = "ButtonChange" =>
                   \E slot \in ChangedSlots :
                      /\ as_device_button(slot) = Emitted[i].id
                      /\ Emitted[i].value = ReportBit(last.arg, slot)
          /\ \A slot \in BUTTON_SHIFT..(BUTTON_NONE - 1) :
                button_states[slot] = ReportBit(last.arg, slot)
    /\ \A id \in ButtonIds :
          heard.pressed[id] # "none" =>
             \E slot \in EventSlots :
                /\ as_device_button(slot) = id
                /\ (heard.pressed[id] = "pressed")
                      = ReportBit(heard.report, slot)

\* C1 witness: a report releases Scene while Erase, pressed by an earlier
\* report, stays down
C1_Witness ==
    /\ DecodedButtons
    /\ \E i \in 1..Len(Emitted) :
          Emitted[i].type = "ButtonChange" /\ Emitted[i].id = "Scene"
          /\ Emitted[i].value = FALSE
    /\ ReportBit(last.arg, 1) /\ 1 \notin ChangedSlots
    /\ heard.pressed["Erase"] = "pressed"

\* C2: decoding the report decoded most recently once more emits nothing
\* and leaves snapshots, shift latch, encoder value, LED table and LED dirty
\* flag as they were; an event is emitted only for a slot or an encoder
\* value that changed.
C2_RepeatedReportIsSilent ==
    [][/\ (last'.op = "process_buttons" /\ last'.result = "Ok"
           /\ last'.arg = heard.report)
          => /\ events' = events
             /\ button_states' = button_states
             /\ shift_pressed' = shift_pressed
             /\ encoder_value' = encoder_value
             /\ leds' = leds
             /\ leds_dirty' = leds_dirty
       /\ (last'.op = "process_buttons" /\ last'.result = "Ok")
          => Len(events') - Len(events)
                = Cardinality({slot \in EventSlots :
                                  button_states[slot]
                                     # ReportBit(last'.arg, slot)})
                  + (IF encoder_value # last'.arg[5] THEN 1 ELSE 0)
      ]_vars

\* C2 witness: a report with Erase down and the encoder at 15 was decoded
\* and changed nothing
C2_Witness ==
    /\ DecodedButtons
    /\ last.arg = <<2, 0, 0, 0, 15>>
    /\ Emitted = <<>>
    /\ Self = last.old

\* C3: a change of the Shift slot adds no ButtonChange event; it sets the
\* shift latch to the new bit and the Shift LED to 0xFF when pressed, 0x00
\* when released.
C3_ShiftIsLatchedNotQueued ==
    DecodedButtons =>
       /\ Len(EventsOf("ButtonChange")) = Cardinality(ChangedSlots)
       /\ ShiftChanged =>
             /\ shift_pressed = ReportBit(last.arg, 0)
             /\ leds[LED_SHIFT] = IF ReportBit(last.arg, 0) THEN 255 ELSE 0
             /\ \A i \in 0..(LED_COUNT - 1) :
                   i # LED_SHIFT => leds[i] = last.old.leds[i]

\* C3 witness: Shift alone is released
C3_Witness ==
    /\ DecodedButtons
    /\ ShiftChanged /\ ~ReportBit(last.arg, 0)
    /\ ChangedSlots = {}
    /\ Emitted = <<>>
    /\ ~shift_pressed /\ leds[LED_SHIFT] = 0 /\ last.old.leds[LED_SHIFT] = 255

\* the direction the specification gives for an encoder change
ExpectedDirection(old, new) ==
    IF (new > old /\ ~(old = 0 /\ new = 15)) \/ (old = 15 /\ new = 0)
    THEN "Down"
    ELSE "Up"

\* C4: for stored value old and reported value new in 0..15, old # new, the
\* EncoderChange direction is Down when new > old (except 0 -> 15) or
\* 15 -> 0, Up otherwise; 14 -> 15 and 15 -> 0 give Down, 0 -> 15 gives Up.
C4_EncoderDirection ==
    (DecodedButtons /\ last.old.encoder_value # last.arg[5]
     /\ last.old.encoder_value \in 0..15 /\ last.arg[5] \in 0..15) =>
       /\ Emitted # <<>>
       /\ Emitted[Len(Emitted)].type = "EncoderChange"
       /\ Emitted[Len(Emitted)].value
             = ExpectedDirection(last.old.encoder_value, last.arg[5])
       /\ (last.old.encoder_value = 14 /\ last.arg[5] = 15)
             => Emitted[Len(Emitted)].value = "Down"
       /\ (last.old.encoder_value = 15 /\ last.arg[5] = 0)
             => Emitted[Len(Emitted)].value = "Down"
       /\ (last.old.encoder_value = 0 /\ last.arg[5] = 15)
             => Emitted[Len(Emitted)].value = "Up"

\* C4 witness: the encoder wraps from 15 to 0 and Down is emitted
C4_Witness ==
    /\ DecodedButtons
    /\ last.old.encoder_value = 15 /\ last.arg[5] = 0
    /\ Emitted # <<>>
    /\ Emitted[Len(Emitted)] = EncoderChange(0, "Down", shift_pressed)

\* C5: a decoded button report emits exactly one EncoderChange event when
\* its encoder byte differs from the stored value and none when it is equal;
\* afterwards the stored value is the report's encoder byte.
C5_OneEncoderEventPerChange ==
    DecodedButtons =>
       /\ Len(EventsOf("EncoderChange"))
             = (IF last.old.encoder_value # last.arg[5] THEN 1 ELSE 0)
       /\ encoder_value = last.arg[5]

\* C5 witness: a report moves the encoder from 3 to 7 and one event is
\* emitted
C5_Witness ==
    /\ DecodedButtons
    /\ last.old.encoder_value = 3 /\ last.arg[5] = 7
    /\ Len(EventsOf("EncoderChange")) = 1
    /\ encoder_value = 7

\* C6: for each of the 16 channels of a decoded pad report the pad id is the
\* high nibble of the second byte, the raw value (low nibble of the second
\* byte) << 8 | first byte, the pad pressed iff raw > 512; the stored raw
\* value is always updated, and a PadChange carries raw >> 4 when pressed
\* and 0 otherwise.  (0x00, 0x21) is pad 2, raw 0x100, no event when not
\* latched; (0xFF, 0x2F) is pad 2, raw 0xFFF, velocity 0xFF.
C6_PadChannelDecode ==
    DecodedPads =>
       /\ \A p \in 0..(PAD_COUNT - 1) :
             LET chans == {k \in Channels : ChanPad(last.arg, k) = p} IN
             pads_data[p] = IF chans = {} THEN last.old.pads_data[p]
                            ELSE ChanRaw(last.arg, Latest(chans))
       /\ \A i \in 1..Len(Emitted) :
             /\ Emitted[i].type = "PadChange"
             /\ \E k \in Channels :
                   /\ Emitted[i].id = ChanPad(last.arg, k)
                   /\ Emitted[i].value = ChanVelocity(last.arg, k)
       /\ \A k \in Channels :
             ChanPressed(last.arg, k) =>
                \E i \in 1..Len(Emitted) :
                   /\ Emitted[i].id = ChanPad(last.arg, k)
                   /\ Emitted[i].value = ChanRaw(last.arg, k) \div 16
       /\ (last.arg[1] = 0 /\ last.arg[2] = 33) =>
             /\ ChanPad(last.arg, 0) = 2 /\ ChanRaw(last.arg, 0) = 256
             /\ (~last.old.pads_status[2] /\ ChanPad(last.arg, 15) # 2)
                   => \A i \in 1..Len(Emitted) : Emitted[i].id # 2
       /\ (last.arg[1] = 255 /\ last.arg[2] = 47) =>
             /\ ChanPad(last.arg, 0) = 2 /\ ChanRaw(last.arg, 0) = 4095
             /\ Emitted # <<>>
             /\ Emitted[1].id = 2 /\ Emitted[1].value = 255

\* C6 witness: a payload whose first channel is (0xFF, 0x2F) and whose last
\* channel is pad 15 at raw 0x100: pad 2 pressed with velocity 0xFF
C6_Witness ==
    /\ DecodedPads
    /\ last.arg[1] = 255 /\ last.arg[2] = 47
    /\ last.arg[31] = 0 /\ last.arg[32] = 241
    /\ pads_data[2] = 4095 /\ pads_data[15] = 256
    /\ Len(Emitted) = 1
    /\ Emitted[1].id = 2 /\ Emitted[1].value = 255

\* C7: a pad emits a PadChange for every decoded channel in which it is
\* pressed, exactly one zero-velocity PadChange for the first channel in
\* which it is not pressed after having been pressed, and none for further
\* not-pressed channels; a pad never pressed emits nothing.
C7_OneReleasePerPress ==
    DecodedPads =>
       LET emits(k) == ChanPressed(last.arg, k) \/ WasPressed(last.arg, k)
           expected == SelectSeq([i \in 1..PAD_COUNT |-> i - 1], emits)
       IN /\ Len(Emitted) = Len(expected)
          /\ \A i \in 1..Len(expected) :
                /\ Emitted[i].type = "PadChange"
                /\ Emitted[i].id = ChanPad(last.arg, expected[i])
                /\ (Emitted[i].value = 0)
                      = ~ChanPressed(last.arg, expected[i])

\* C7 witness: pad 2, pressed by an earlier report, is at rest in the first
\* and in the last channel of this one: one zero-velocity event
C7_Witness ==
    /\ DecodedPads
    /\ last.old.pads_data[2] > 512
    /\ ChanPad(last.arg, 0) = 2 /\ ~ChanPressed(last.arg, 0)
    /\ ChanPad(last.arg, 15) = 2 /\ ~ChanPressed(last.arg, 15)
    /\ Len(Emitted) = 1
    /\ Emitted[1].id = 2 /\ Emitted[1].value = 0

\* the LED slot a set_button_led / set_pad_led call addresses
LedWrite == last.op \in {"set_button_led", "set_pad_led"}

TargetLed ==
    IF last.op = "set_button_led" THEN button_to_led(last.arg[1])
    ELSE pad_to_led(last.arg[1])

\* the RGB-capable slots: Group and the 16 pads
IsRgbSlot == last.op = "set_pad_led" \/ last.arg[1] = "Group"

\* the bytes the specification computes for a colour
ComputedBytes ==
    LET c == last.arg[2] IN
    IF IsRgbSlot THEN <<c.r \div 2, c.g \div 2, c.b \div 2>>
    ELSE <<IF c.r > 127 \/ c.g > 127 \/ c.b > 127 THEN 255 ELSE 0>>

\* the bytes of the addressed slot in an LED table
SlotBytes(table) ==
    [i \in 1..Len(ComputedBytes) |-> table[TargetLed[1] + i - 1]]

\* C8: a colour whose computed bytes equal the stored ones does not mark the
\* LED table dirty, a colour whose computed bytes differ always leaves it
\* dirty.
C8_DirtyIffBytesDiffer ==
    (LedWrite /\ TargetLed # None) =>
       /\ ComputedBytes = SlotBytes(last.old.leds)
             => (leds_dirty => last.old.leds_dirty)
       /\ ComputedBytes # SlotBytes(last.old.leds) => leds_dirty

\* C9: a write to an RGB-capable slot stores exactly r>>1, g>>1, b>>1 at the
\* base address and the two after it; a write to any other mapped slot
\* stores exactly one byte, 0xFF if a channel exceeds 0x7F and 0x00
\* otherwise.
C9_StoredLedBytes ==
    (LedWrite /\ TargetLed # None) =>
       /\ SlotBytes(leds) = ComputedBytes
       /\ \A i \in 0..(LED_COUNT - 1) :
             (i < TargetLed[1] \/ i >= TargetLed[1] + Len(ComputedBytes))
                => leds[i] = last.old.leds[i]

\* C9 witness: pad 15 is set to (0, 128, 0) while Erase is lit
C9_Witness ==
    /\ last.op = "set_pad_led"
    /\ last.arg = <<15, Colour(0, 128, 0)>>
    /\ leds[LED_PAD04] = 0 /\ leds[LED_PAD04 + 1] = 64
    /\ leds[LED_PAD04 + 2] = 0
    /\ leds[20] = 255

\* C10: every call of tick advances the phase counter by one modulo 3,
\* whatever the call returns.
C10_TickAlwaysAdvances ==
    last.op = "tick" => tick_state = (last.old.tick_state + 1) % 3

-----------------------------------------------------------------------------
(* Properties of the output scheduler *)

DisplayTick == last.op = "tick" /\ last.old.tick_state = 0

LedTick == last.op = "tick" /\ last.old.tick_state = 1

PollTick == last.op = "tick" /\ last.old.tick_state = 2

\* the chunk the specification gives for the i-th write of a frame: the
\* header of row 0, 2, 4, 6 and the 256 bytes of the buffer that start at
\* row * 128
IsChunk(report, buffer, i) ==
    LET row == 2 * (i - 1) IN
    /\ report.header = <<224, 0, 0, row, 0, 128, 0, 2, 0>>
    /\ Len(report.bytes) = 256
    /\ \A k \in 1..256 : report.bytes[k] = buffer[row * 128 + k - 1]

\* the chunks the display held whole when the last tick began, four of
\* them in the display the driver constructs
ChunksHeld ==
    IF data_size(last.old.display) >= 1024 THEN 4
    ELSE data_size(last.old.display) \div 256

\* the last tick was a display phase with a dirty canvas in which the
\* transport failed a write the phase made
FrameWriteFailed ==
    /\ DisplayTick /\ last.old.display.dirty
    /\ last.arg < 8 /\ last.arg \div 2 + 1 <= ChunksHeld

\* the last tick was a display phase with a dirty canvas that ended in the
\* panic of a slice past the end of the buffer
FramePanicked ==
    /\ DisplayTick /\ last.old.display.dirty
    /\ ChunksHeld < 4 /\ ~FrameWriteFailed

\* the statement of C11 as the specification gives it: the display phase
\* that runs after a failed one always writes the frame from row 0.  A
\* caller that clears the dirty flag of the display field, or copies a
\* canvas of fewer than 256 bytes into it, between the two phases makes
\* the second phase write nothing
C11_FrameRetriedFromStart ==
    /\ (DisplayTick /\ last.old.display.dirty) =>
          /\ ~display.dirty => (Len(wire) = 4 /\ last.result = "Ok")
          /\ FrameWriteFailed => display.dirty
    /\ (DisplayTick /\ last.unsent # None) =>
          /\ wire # <<>>
          /\ \A i \in 1..Len(wire) :
                IsChunk(wire[i], last.old.display.buffer, i)

\* C11: in a display phase with a dirty canvas the flag is cleared only if
\* all four chunk writes succeed and stays set if one fails, the tick
\* staying in the display phase; from then on the driver leaves the flag
\* set until a display phase has written all four chunks, so that only the
\* caller's own clear_dirty_flag on the display field can clear it before;
\* the next tick that runs is a display phase, and when the canvas is still
\* dirty and still holds its first 256 bytes it writes the frame from row 0
\* again, as many chunks as the buffer holds and the transport lets pass; it
\* never resumes at the failed chunk.
C11_FrameRetriedWhileDirty ==
    /\ [](/\ (DisplayTick /\ last.old.display.dirty) =>
              /\ ~display.dirty <=>
                    (Len(wire) = 4 /\ ~FrameWriteFailed
                     /\ last.result = "Ok")
              /\ FrameWriteFailed =>
                    /\ display.dirty /\ tick_state = 0
                    /\ last.result = "HidAPI"
                    /\ Unsent = Some(last.arg)
              /\ \A i \in 1..Len(wire) :
                    IsChunk(wire[i], last.old.display.buffer, i)
          /\ Unsent # None => tick_state = 0
          /\ (DisplayTick /\ last.unsent # None) =>
              /\ (last.old.display.dirty /\ ChunksHeld >= 1) =>
                    /\ wire # <<>>
                    /\ IsChunk(wire[1], last.old.display.buffer, 1)
                    /\ Len(wire) = (IF FrameWriteFailed
                                    THEN last.arg \div 2 + 1
                                    ELSE ChunksHeld)
              /\ (~last.old.display.dirty \/ ChunksHeld = 0) =>
                    wire = <<>>)
    /\ [][/\ (display.dirty /\ ~display'.dirty) =>
                \/ last'.op = "display.clear_dirty_flag"
                \/ /\ last'.op = "tick" /\ tick_state = 0
                   /\ Len(wire') = 4 /\ last'.result = "Ok"
          /\ (Unsent # None /\ last'.op = "tick") =>
                /\ last'.old.tick_state = 0
                /\ last'.unsent = Unsent
         ]_vars

\* C11 witness: the third chunk write of a dirty frame had failed, and the
\* display phase that followed wrote the four chunks from row 0 and cleared
\* the flag
C11_Witness ==
    /\ DisplayTick /\ last.unsent = Some(4)
    /\ last.old.display.dirty /\ last.arg = 8 /\ last.result = "Ok"
    /\ Len(wire) = 4 /\ wire[1].header[4] = 0 /\ wire[3].header[4] = 4
    /\ ~display.dirty /\ tick_state = 1

\* C12: an LED phase writes exactly one report, the address byte 0x80 and
\* the 78 table bytes, when the LED table is dirty and none when it is
\* clean; the LED dirty flag is cleared only when that write succeeds and
\* stays set when it fails.
C12_LedReport ==
    LedTick =>
       /\ last.old.leds_dirty =>
             /\ Len(wire) = 1
             /\ wire[1].header = <<128>>
             /\ DOMAIN wire[1].bytes = 0..77
             /\ wire[1].bytes = last.old.leds
             /\ leds_dirty = ~last.arg
             /\ (last.result = "Ok") = last.arg
       /\ ~last.old.leds_dirty =>
             /\ wire = <<>>
             /\ ~leds_dirty
             /\ last.result = "Ok"
       /\ leds = last.old.leds

\* C12 witness: the write of a dirty table with the Erase LED lit failed
C12_Witness ==
    /\ LedTick /\ last.old.leds_dirty /\ ~last.arg
    /\ last.result = "HidAPI"
    /\ Len(wire) = 1 /\ wire[1].bytes[20] = 255
    /\ leds_dirty /\ tick_state = 1

\* the first read attempt of a poll script the transport fails
FirstFailure(script) ==
    CHOOSE idx \in 0..ReadAttempts :
       /\ idx < ReadAttempts => script[idx].err
       /\ \A j \in 0..(idx - 1) : ~script[j].err

\* whether the transport fails a call the last tick made
TransportFailed ==
    \/ FrameWriteFailed
    \/ LedTick /\ last.old.leds_dirty /\ ~last.arg
    \/ PollTick /\ FirstFailure(last.arg) < ReadAttempts

\* C13: a transport failure stops the phase at the failing call: no chunk
\* is written after a failed chunk write, no read is attempted after a
\* failed read, the failed call is not made again within the tick, and the
\* tick returns the failure.
C13_FailureStopsPhase ==
    /\ (last.op = "tick" /\ TransportFailed) =>
          /\ last.result = "HidAPI"
          /\ DisplayTick =>
                /\ Len(wire) = last.arg \div 2 + 1
                /\ \A i \in 1..Len(wire) : wire[i].header[4] = 2 * (i - 1)
                /\ reads = 0
          /\ LedTick => Len(wire) = 1 /\ reads = 0
          /\ PollTick => reads = FirstFailure(last.arg) + 1 /\ wire = <<>>
    /\ (last.op = "tick" /\ ~TransportFailed) =>
          /\ last.result = (IF FramePanicked THEN "Panic" ELSE "Ok")
          /\ PollTick => reads = ReadAttempts

\* C13 witness: a poll phase decoded a button report at its first attempt
\* and the second read failed: two reads, the error returned
C13_Witness ==
    /\ PollTick /\ FirstFailure(last.arg) = 1
    /\ last.result = "HidAPI" /\ reads = 2
    /\ Emitted # <<>> /\ tick_state = 2

-----------------------------------------------------------------------------
(* Properties of the decoder's validation *)

\* C14: a button payload shorter than 5 bytes and a pad payload shorter than
\* 64 bytes return the malformed-report error and leave snapshots, shift
\* latch, encoder value, pad data, pad latches, LED table and event queue as
\* they were: a report is applied entirely or not at all.
C14_MalformedReportChangesNothing ==
    /\ ((last.op = "process_buttons" /\ Len(last.arg) < 5)
         \/ (last.op = "process_pads" /\ Len(last.arg) < 64)) =>
          /\ last.result = "InvalidReport"
          /\ button_states = last.old.button_states
          /\ shift_pressed = last.old.shift_pressed
          /\ encoder_value = last.old.encoder_value
          /\ pads_data = last.old.pads_data
          /\ pads_status = last.old.pads_status
          /\ leds = last.old.leds
          /\ leds_dirty = last.old.leds_dirty
          /\ events = last.old.events
    /\ ((last.op = "process_buttons" /\ Len(last.arg) >= 5)
         \/ (last.op = "process_pads" /\ Len(last.arg) >= 64)) =>
          last.result = "Ok"

\* C14 witness: a pad payload of 63 bytes 0xFF is refused while pad 2 is
\* held and its event waits in the queue
C14_Witness ==
    /\ last.op = "process_pads" /\ Len(last.arg) = 63 /\ last.arg[2] = 255
    /\ last.result = "InvalidReport"
    /\ pads_status[2] /\ ~pads_status[15] /\ pads_data[15] = 256
    /\ events # <<>>

-----------------------------------------------------------------------------
(* Properties of the canvas *)

CanvasMutators ==
    {"fill", "fill_row", "fill_rows", "invert", "invert_row",
     "invert_row_slice", "set_pixel", "copy_from", "print_char",
     "vscroll_rows"}

\* whether the last canvas operation is a mutating one that applied: it
\* returned, a set_pixel was in range, a print_char was of a table character
Mutated ==
    /\ last.op \in CanvasMutators
    /\ last.result = "Ok"
    /\ last.op = "set_pixel" =>
          last.arg[1] < last.old.width /\ last.arg[2] < last.old.height
    /\ last.op = "print_char" => last.arg[1] >= 32 /\ last.arg[1] <= 127

\* C15: every mutating canvas operation leaves the dirty flag set, and the
\* flag is cleared only by clear_dirty_flag.
C15_MutatorsSetDirty ==
    /\ Mutated => canvas.dirty
    /\ (last.op \in CanvasMutators \cup {"pixel"} /\ last.old.dirty)
          => canvas.dirty

\* C16: for a coordinate outside the surface (x >= width or y >= height)
\* pixel returns no value, set_pixel leaves the buffer unchanged, and
\* neither fails.
C16_OutOfRangeIgnored ==
    (last.op \in {"pixel", "set_pixel"}
     /\ (last.arg[1] >= last.old.width \/ last.arg[2] >= last.old.height)) =>
       /\ last.result = "Ok"
       /\ last.op = "pixel" => last.value = None
       /\ last.op = "set_pixel" => canvas.buffer = last.old.buffer

\* C17: the backing buffer has exactly width * height / 8 bytes in every
\* state, and after fill every byte is 0xFF for lit, 0x00 for unlit.
C17_BufferSizeAndFill ==
    /\ data_size(canvas) = (canvas.width * canvas.height) \div 8
    /\ last.op = "fill" =>
          \A i \in 0..(((canvas.width * canvas.height) \div 8) - 1) :
             /\ i \in DOMAIN canvas.buffer
             /\ canvas.buffer[i] = IF last.arg[1] = "On" THEN 255 ELSE 0

\* C18: invert applied twice restores the buffer byte for byte.
C18_InvertTwiceRestores ==
    (last.op = "invert" /\ last.before # <<>>) =>
       /\ DOMAIN canvas.buffer = DOMAIN last.before[1]
       /\ \A i \in DOMAIN canvas.buffer : canvas.buffer[i] = last.before[1][i]

\* C18 witness: the second of two inverts in a row has acted on a 2 x 16
\* canvas that holds a glyph column and a single lit pixel
C18_Witness ==
    /\ last.op = "invert" /\ last.before # <<>>
    /\ data_size(canvas) = 4
    /\ canvas.buffer[0] = 2 /\ canvas.buffer[2] = 248
    /\ last.old.buffer[0] = 253 /\ last.old.buffer[2] = 7

-----------------------------------------------------------------------------
(* Properties of the colour conversions *)

\* C19: from_u24(as_u24(Colour(r, g, b))) has the components (r, g, b), and
\* the packed value is r | g << 8 | b << 16.
C19_U24RoundTrip ==
    /\ last.op = "as_u24" =>
          last.result = last.arg.r + 256 * last.arg.g + 65536 * last.arg.b
    /\ last.op = "from_u24" =>
          /\ last.result.r = last.arg[1].r
          /\ last.result.g = last.arg[1].g
          /\ last.result.b = last.arg[1].b

\* C19 witness: (1, 128, 255) packed to 0xFF8001 and unpacked again
C19_Witness ==
    /\ last.op = "from_u24"
    /\ last.arg[1] = Colour(1, 128, 255)
    /\ last.arg[2] = 16744449
    /\ last.result = Colour(1, 128, 255)

-----------------------------------------------------------------------------
(* Properties of the LED mapper: unmapped ids *)

\* whether the last call named a button without an LED or a pad outside
\* 0..15
UnmappedLed ==
    \/ last.op = "set_button_led" /\ last.arg[1] \in {"Unknown", "MainEncoder"}
    \/ last.op = "set_pad_led" /\ last.arg[1] \notin 0..15

\* C20: set_button_led with a button id without an LED mapping (Unknown,
\* MainEncoder) and set_pad_led with a pad number outside 0..15 leave the
\* LED table and the LED dirty flag unchanged and report no error.
C20_UnmappedLedIsNoOp ==
    UnmappedLed =>
       /\ leds = last.old.leds
       /\ leds_dirty = last.old.leds_dirty
       /\ last.result = "Ok"

\* C20 witness: MainEncoder is given white while the table is clean and
\* the Erase LED lit
C20_Witness ==
    /\ last.op = "set_button_led"
    /\ last.arg = <<"MainEncoder", WHITE>>
    /\ ~leds_dirty /\ leds[20] = 255

-----------------------------------------------------------------------------
(* Properties of the LED dirty flag *)

\* C21: whenever the LED table differs from the table of the last LED
\* report the transport accepted, the LED dirty flag is set, so that the
\* next successful LED phase transmits the change.
C21_ChangedTableIsDirty ==
    (transmitted # None /\ leds # transmitted[1]) => leds_dirty

-----------------------------------------------------------------------------
(* Properties of the display frame *)

\* the reports among the given writes whose payload holds the byte of the
\* display buffer at the index: the payload of a report starts at the
\* row of its header times 128
Covering(writes, index) ==
    {i \in 1..Len(writes) :
        /\ writes[i].header[4] * 128 <= index
        /\ index < writes[i].header[4] * 128 + Len(writes[i].bytes)}

\* the statement of C22 as the specification gives it: every display phase
\* with a dirty canvas writes the four reports.  A phase in which the
\* transport fails a write stops at that write, and a phase that finds a
\* buffer of fewer than 1024 bytes in the display field ends in a panic
C22_FrameChunks ==
    /\ (DisplayTick /\ last.old.display.dirty) =>
          /\ Len(wire) = 4
          /\ \A i \in 1..Len(wire) :
                IsChunk(wire[i], last.old.display.buffer, i)
          /\ \A index \in 0..1023 : Cardinality(Covering(wire, index)) = 1
    /\ (DisplayTick /\ ~last.old.display.dirty) => wire = <<>>

\* C22: a display phase with a dirty canvas writes reports for the rows 0,
\* 2, 4, 6 in this order, each the 9-byte header (0xE0, 0, 0, row, 0, 0x80,
\* 0, 2, 0) followed by the 256 buffer bytes at offset row * 128, up to the
\* write the transport fails or the chunk the buffer does not hold; with no
\* failed write and the 1024-byte buffer of the constructed display these
\* are exactly four reports, and their payloads are the buffer, every byte
\* of it in exactly one report; a buffer of fewer than 256 bytes, left by
\* copy_from, makes the phase panic with no report written; a display
\* phase with a clean canvas writes nothing.
C22_WholeFrameChunks ==
    /\ (DisplayTick /\ last.old.display.dirty) =>
          LET buffer == last.old.display.buffer IN
          /\ \A i \in 1..Len(wire) :
                LET row == 2 * (i - 1) IN
                /\ wire[i].header = <<224, 0, 0, row, 0, 128, 0, 2, 0>>
                /\ Len(wire[i].header) = 9
                /\ Len(wire[i].bytes) = 256
                /\ \A k \in 1..256 :
                      wire[i].bytes[k] = buffer[row * 128 + k - 1]
          /\ Len(wire) = (IF FrameWriteFailed THEN last.arg \div 2 + 1
                          ELSE ChunksHeld)
          /\ last.result = (IF FrameWriteFailed THEN "HidAPI"
                            ELSE IF ChunksHeld < 4 THEN "Panic" ELSE "Ok")
          /\ (~FrameWriteFailed /\ data_size(last.old.display) = 1024) =>
                /\ Len(wire) = 4
                /\ \A index \in 0..1023 :
                      /\ Cardinality(Covering(wire, index)) = 1
                      /\ wire[(index \div 256) + 1].bytes[(index % 256) + 1]
                            = buffer[index]
          /\ data_size(last.old.display) < 256 =>
                wire = <<>> /\ last.result = "Panic"
    /\ (DisplayTick /\ ~last.old.display.dirty) =>
          wire = <<>> /\ last.result = "Ok"

\* C22 witness: a dirty frame the caller had drawn went out whole, the last
\* report for row 6 with the bytes 768..1023 of the buffer
C22_Witness ==
    /\ DisplayTick /\ last.old.display.dirty /\ last.arg = 8
    /\ Len(wire) = 4 /\ wire[4].header[4] = 6
    /\ wire[4].bytes[1] = 768 % 251 /\ wire[4].bytes[256] = 1023 % 251
    /\ wire[1].bytes[256] = 255 % 251
    /\ ~display.dirty /\ tick_state = 1

-----------------------------------------------------------------------------
(* Properties of the phases of tick *)

\* C24: a tick performs one class of transport traffic: in the display
\* phase display writes only, in the LED phase at most the one LED write,
\* in the poll phase reads only; the driver is constructed in the display
\* phase and only tick leaves a phase, so the first tick is a display
\* phase; events are added to the queue by poll-phase ticks only.
C24_OneTrafficClassPerTick ==
    /\ tick_state = 0
    /\ [][/\ last'.op = "tick" =>
                /\ tick_state = 0 =>
                      /\ reads' = 0
                      /\ \A i \in 1..Len(wire') :
                            wire'[i].header[1] = DISPLAY_ADDR
                /\ tick_state = 1 =>
                      /\ reads' = 0
                      /\ Len(wire') <= 1
                      /\ \A i \in 1..Len(wire') :
                            wire'[i].header = <<LED_ADDR>>
                /\ tick_state = 2 => wire' = <<>>
                /\ tick_state \in {0, 1, 2}
          /\ last'.op # "tick" => tick_state' = tick_state
          /\ Len(events') > Len(events) =>
                last'.op = "tick" /\ tick_state = 2
         ]_vars

\* C24 witness: a poll-phase tick read 32 times, wrote nothing and queued
\* the two events of a button report
C24_Witness ==
    /\ PollTick /\ last.result = "Ok"
    /\ reads = ReadAttempts /\ wire = <<>>
    /\ Len(Emitted) = 2 /\ Emitted[1].type = "ButtonChange"

-----------------------------------------------------------------------------
(* Properties of the poll phase *)

\* whether the report the transport delivers on an attempt is one the
\* specification has decoded: a button report on any attempt, a pad report
\* on attempts 0, 7, 14, 21, 28
Dispatchable(script, idx) ==
    /\ script[idx].data # <<>>
    /\ \/ script[idx].data[1] = 1
       \/ script[idx].data[1] = 32 /\ idx \in {0, 7, 14, 21, 28}

\* the decoder applied to the dispatchable reports of the attempts
\* lo..hi - 1, in order
RECURSIVE Replay(_, _, _, _)
Replay(d, script, lo, hi) ==
    IF lo >= hi \/ ~Evaluated(d) THEN d
    ELSE IF hi - lo > 1
    THEN Replay(Replay(d, script, lo, (lo + hi) \div 2), script,
                (lo + hi) \div 2, hi)
    ELSE IF ~Dispatchable(script, lo) THEN d
    ELSE IF script[lo].data[1] = 1
    THEN process_buttons(d, Tail(script[lo].data)).d
    ELSE process_pads(d, Tail(script[lo].data)).d

\* the attempts of a poll phase whose report was handed to the decoder
DispatchedAt == {dispatched[k].idx : k \in 1..Len(dispatched)}

NoReadFailed == \A idx \in 0..31 : ~last.arg[idx].err

\* C23: a poll phase without transport failure makes exactly 32 read
\* attempts; a report tagged 0x01 is decoded as a button report on any
\* attempt, a report tagged 0x20 as a pad report only on the attempts
\* divisible by 7, and every other read (zero bytes, another tag, a pad
\* report on another attempt) changes no decoder state and adds no event.
C23_PollDispatch ==
    (PollTick /\ NoReadFailed) =>
       /\ last.result = "Ok"
       /\ reads = 32
       /\ DispatchedAt = {idx \in 0..31 : Dispatchable(last.arg, idx)}
       /\ \A k \in 1..Len(dispatched) :
             /\ dispatched[k].tag = last.arg[dispatched[k].idx].data[1]
             /\ \A j \in 1..(k - 1) : dispatched[j].idx < dispatched[k].idx
       /\ Self = [Replay(last.old, last.arg, 0, 32) EXCEPT !.tick_state = 0]

\* C23 witness: a pad press delivered on attempt 6 was dropped and the
\* release of a held pad delivered on attempt 7 decoded
C23_Witness ==
    /\ PollTick /\ NoReadFailed /\ reads = 32
    /\ last.arg[6].data # <<>> /\ last.arg[6].data[1] = 32
    /\ last.arg[6].data[3] = 47
    /\ last.arg[7].data # <<>> /\ last.arg[7].data[1] = 32
    /\ DispatchedAt = {7}
    /\ last.old.pads_status[2] /\ ~pads_status[2]
    /\ Len(Emitted) = 1 /\ Emitted[1].type = "PadChange"

-----------------------------------------------------------------------------
(* Properties of the button snapshot *)

\* the logical slots whose byte slot >> 3 lies in the payload
PayloadSlots == {slot \in 0..(BUTTON_COUNT - 1) : slot \div 8 < Len(last.arg)}

\* C25: on every decoded button report each of the 45 logical slots is
\* compared with its snapshot, using byte slot >> 3 and bit slot % 8 of the
\* payload, and the snapshot is updated on change: after the decode the
\* snapshot of every slot the payload has a bit for equals that bit.
C25_AllSlotsScanned ==
    DecodedButtons =>
       \A slot \in PayloadSlots : button_states[slot] = ReportBit(last.arg, slot)

-----------------------------------------------------------------------------
(* Properties of the shift value and the order of events *)

\* the slot of a button id that has one
SlotOf(id) == CHOOSE slot \in EventSlots : as_device_button(slot) = id

\* whether the last operation decoded a report
Decoded ==
    last.op \in {"process_buttons", "process_pads"} /\ last.result = "Ok"

\* C26: every event carries the value the shift latch has when the event is
\* emitted.  The Shift slot is scanned first, so the events of a button
\* report carry the Shift bit of that report, also when the report changes
\* Shift and other buttons at once; a pad report leaves the latch alone.
\* The button events of a report are queued in ascending slot order, the
\* encoder event after them.
C26_EventsCarryShiftInOrder ==
    Decoded =>
       /\ \A i \in 1..Len(Emitted) : Emitted[i].shift = shift_pressed
       /\ last.op = "process_buttons" =>
             /\ shift_pressed = ReportBit(last.arg, BUTTON_SHIFT)
             /\ \A i \in 1..Len(Emitted) :
                   Emitted[i].type \in {"ButtonChange", "EncoderChange"}
             /\ \A i, j \in 1..Len(Emitted) :
                   (i < j /\ Emitted[j].type = "ButtonChange") =>
                      /\ Emitted[i].type = "ButtonChange"
                      /\ SlotOf(Emitted[i].id) < SlotOf(Emitted[j].id)
             /\ Len(EventsOf("EncoderChange")) <= 1
       /\ last.op = "process_pads" =>
             /\ shift_pressed = last.old.shift_pressed
             /\ \A i \in 1..Len(Emitted) : Emitted[i].type = "PadChange"

\* C26 witness: one report presses Shift, Erase and Scene and turns the
\* encoder; the three events carry the new Shift state, Erase before
\* Scene before the encoder
C26_Witness ==
    /\ last.op = "process_buttons" /\ last.arg = <<3, 0, 0, 128, 3>>
    /\ ~last.old.shift_pressed /\ shift_pressed
    /\ Emitted = <<ButtonChange("Erase", TRUE, TRUE),
                   ButtonChange("Scene", TRUE, TRUE),
                   EncoderChange(0, "Down", TRUE)>>

-----------------------------------------------------------------------------
(* Properties of the layout of the LED table *)

\* the button ids with an LED, and the table slots of all LEDs: those of
\* the buttons, the Shift LED and those of the 16 pads
LedButtonIds == {id \in ButtonIds : button_to_led(id) # None}

PadSlots == {pad_to_led(pad)[1] : pad \in 0..(PAD_COUNT - 1)}

LedSlots ==
    {button_to_led(id)[1] : id \in LedButtonIds} \cup {LED_SHIFT} \cup PadSlots

\* the bytes of a slot: three for the Group slot and the pad slots, one for
\* the others
SlotRange(led) ==
    IF led = button_to_led("Group")[1] \/ led \in PadSlots
    THEN led..(led + 2)
    ELSE {led}

\* the slot the last operation wrote, if it wrote one
WrittenSlot ==
    IF last.op = "set_button_led" /\ button_to_led(last.arg[1]) # None
    THEN {button_to_led(last.arg[1])[1]}
    ELSE IF last.op = "set_pad_led" /\ pad_to_led(last.arg[1]) # None
    THEN {pad_to_led(last.arg[1])[1]}
    ELSE IF PollTick /\ shift_pressed # last.old.shift_pressed
    THEN {LED_SHIFT}
    ELSE {}

\* every LED has a slot of its own, of the width is_rgb_led gives it, inside
\* the table and disjoint from every other slot
LayoutDisjoint ==
    /\ Cardinality(LedSlots) = Cardinality(LedButtonIds) + 1 + PAD_COUNT
    /\ \A a \in LedSlots :
          /\ SlotRange(a) \subseteq 0..77
          /\ is_rgb_led(a) = (Cardinality(SlotRange(a)) = 3)
          /\ \A b \in LedSlots : a # b => SlotRange(a) \cap SlotRange(b) = {}

\* C27: the byte ranges of all mapped LED slots (one byte for mono slots,
\* three for the Group slot and the 16 pad slots) are pairwise disjoint and
\* lie inside the 78-byte table; a write through set_button_led or
\* set_pad_led or a Shift transition changes bytes of that slot only; the
\* table keeps its 78 bytes.
C27_LedSlotsDisjoint ==
    /\ LayoutDisjoint
    /\ DOMAIN leds = 0..77
    /\ \A i \in 0..77 :
          leds[i] # last.old.leds[i] =>
             \E led \in WrittenSlot : i \in SlotRange(led)

\* C27 witness: the Group LED is written while Erase, Shift and pad 0 are
\* lit: the three Group bytes change, its neighbours Main and Browse and
\* the lit slots keep their bytes
C27_Witness ==
    /\ last.op = "set_button_led" /\ last.arg = <<"Group", WHITE>>
    /\ last.old.leds[8] = 0 /\ leds[8] = 127 /\ leds[9] = 127 /\ leds[10] = 127
    /\ leds[7] = 0 /\ leds[11] = 0
    /\ leds[LED_SHIFT] = 255 /\ leds[30] = 127 /\ leds[20] = 255

-----------------------------------------------------------------------------
(* Properties of the pad latch *)

\* C28: in every reachable state and for every pad p in 0..15, the pad
\* latch pads_status[p] is true exactly when the stored raw value
\* pads_data[p] is greater than 512.
C28_LatchFollowsValue ==
    \A p \in 0..15 : pads_status[p] = (pads_data[p] > 512)

\* C28 witness: a report left pad 2 at the threshold itself, released after
\* it was held, and pad 15 pressed at full scale
C28_Witness ==
    /\ last.op = "process_pads" /\ last.result = "Ok"
    /\ last.old.pads_status[2] /\ last.old.pads_data[2] = 513
    /\ pads_data[2] = 512 /\ ~pads_status[2]
    /\ pads_data[15] = 4095 /\ pads_status[15]

-----------------------------------------------------------------------------
(* Properties of set_pixel and pixel *)

\* whether the last operation was set_pixel at a coordinate inside the
\* surface
SetInRange ==
    /\ last.op = "set_pixel"
    /\ last.arg[1] < last.old.width /\ last.arg[2] < last.old.height

\* the byte a pixel lies in, and a byte without the bit of a pixel row
ByteOf(c, x, y) == c.width * (y \div 8) + x

WithoutBit(byte, y) ==
    byte - (IF (byte \div (2 ^ (y % 8))) % 2 = 1 THEN 2 ^ (y % 8) ELSE 0)

\* C29: for every in-range coordinate (x < width, y < height) and every
\* buffer content, after set_pixel(x, y, c) the query pixel(x, y) returns
\* c; set_pixel changes only bit y mod 8 of byte width * (y div 8) + x, and
\* pixel(x', y') for every other in-range coordinate returns what it
\* returned before.
C29_SetThenGet ==
    SetInRange =>
       LET x == last.arg[1]
           y == last.arg[2]
       IN /\ last.result = "Ok"
          /\ pixel(canvas, x, y).value = Some(last.arg[3])
          /\ DOMAIN canvas.buffer = DOMAIN last.old.buffer
          /\ \A i \in DOMAIN canvas.buffer :
                IF i = ByteOf(canvas, x, y)
                THEN WithoutBit(canvas.buffer[i], y)
                        = WithoutBit(last.old.buffer[i], y)
                ELSE canvas.buffer[i] = last.old.buffer[i]
          /\ \A x1 \in 0..(canvas.width - 1), y1 \in 0..(canvas.height - 1) :
                <<x1, y1>> # <<x, y>> =>
                   pixel(canvas, x1, y1).value = pixel(last.old, x1, y1).value

-----------------------------------------------------------------------------
(* Properties of vscroll_rows *)

\* the band rows of the canvas the last operation was applied to, and the
\* ends of the range the last vscroll_rows was given, which it takes in
\* either order; the range is the band rows from the lower end to the
\* upper end, both included
Bands == 0..((last.old.height \div 8) - 1)

ScrollLo == IF last.arg[1] < last.arg[2] THEN last.arg[1] ELSE last.arg[2]

ScrollHi == IF last.arg[1] < last.arg[2] THEN last.arg[2] ELSE last.arg[1]

\* a band row of a buffer, as the sequence of its bytes
Band(c, buffer, row) ==
    [col \in 1..c.width |-> buffer[row * c.width + col - 1]]

\* whether the last operation scrolled a range inside a canvas whose buffer
\* holds its band rows
ScrolledInside ==
    /\ last.op = "vscroll_rows"
    /\ ScrollHi \in Bands
    /\ data_size(last.old) = last.old.width * (last.old.height \div 8)

\* C30: vscroll_rows over a band-row range inside the surface shifts the
\* content of the range by exactly one band (Up towards the upper end of
\* the range, Down towards the lower end), sets the band vacated at the
\* trailing edge to zero bytes, leaves every band outside the range
\* unchanged and accesses no byte outside the buffer.
C30_ScrollShiftsOneBand ==
    ScrolledInside =>
       /\ last.result = "Ok"
       /\ DOMAIN canvas.buffer = DOMAIN last.old.buffer
       /\ \A row \in Bands :
             Band(canvas, canvas.buffer, row) =
                IF row < ScrollLo \/ row > ScrollHi
                THEN Band(canvas, last.old.buffer, row)
                ELSE IF last.arg[3] = "Up"
                THEN IF row = ScrollLo THEN [col \in 1..canvas.width |-> 0]
                     ELSE Band(canvas, last.old.buffer, row - 1)
                ELSE IF row = ScrollHi THEN [col \in 1..canvas.width |-> 0]
                     ELSE Band(canvas, last.old.buffer, row + 1)

\* C30 witness: the three band rows of a 2 x 24 canvas, each with a content
\* of its own, were scrolled Up: the first is zero, the second holds what
\* the first held, the third what the second held
C30_Witness ==
    /\ ScrolledInside /\ last.arg = <<0, 2, "Up">>
    /\ last.old.buffer[0] = 2 /\ last.old.buffer[2] = 253
    /\ last.old.buffer[4] = 255
    /\ canvas.buffer[0] = 0 /\ canvas.buffer[2] = 2 /\ canvas.buffer[4] = 253

-----------------------------------------------------------------------------
(* Properties of print *)

\* the string, the start and the colour of the print that acted last
PrintedString == last.arg[1]

PrintedColour == last.arg[4]

\* the width of the glyph of a character: 0 outside the codes 0x20..0x7F
GlyphWidth(t) == IF t >= 32 /\ t <= 127 THEN FontAI[t - 32].width ELSE 0

\* the k-th character of the string is drawn: it is no newline and a
\* character of the table
IsDrawn(k) ==
    /\ PrintedString[k] # 10
    /\ PrintedString[k] >= 32
    /\ PrintedString[k] <= 127

\* the newlines before the k-th character, and the last of them (0: none)
NewlinesBefore(k) == {j \in 1..(k - 1) : PrintedString[j] = 10}

LastNewlineBefore(k) ==
    IF NewlinesBefore(k) = {} THEN 0
    ELSE CHOOSE j \in NewlinesBefore(k) : \A i \in NewlinesBefore(k) : i <= j

\* the row of the k-th character: one more for every newline before it
RowAt(k) == last.arg[2] + Cardinality(NewlinesBefore(k))

\* the column of the k-th character: the start column, or 0 after a
\* newline, and the glyph width plus one of every character since
ColAt(k) ==
    (IF LastNewlineBefore(k) = 0 THEN last.arg[3] ELSE 0)
    + Cardinality({p \in ((LastNewlineBefore(k) + 1)..(k - 1)) \X (0..5) :
                      p[2] <= GlyphWidth(PrintedString[p[1]])})

\* the buffer index of the first column of the k-th character
CellAt(k) == (RowAt(k) * last.old.width) + ColAt(k)

\* the characters whose glyph covers the buffer index i
Covers(i) ==
    {k \in 1..Len(PrintedString) :
        /\ IsDrawn(k)
        /\ i >= CellAt(k)
        /\ i < CellAt(k) + GlyphWidth(PrintedString[k])}

\* every glyph column of the string lies in the buffer
GlyphsInBuffer ==
    \A k \in 1..Len(PrintedString) :
       IsDrawn(k) =>
          \A slice \in 0..(GlyphWidth(PrintedString[k]) - 1) :
             CellAt(k) + slice \in DOMAIN last.old.buffer

\* the byte a glyph column is drawn as
DrawnByte(k, i) ==
    LET column == FontAI[PrintedString[k] - 32].glyph[(i - CellAt(k)) + 1]
        shifted == (column * 4) % 256
    IN IF PrintedColour = "On" THEN shifted ELSE 255 - shifted

\* the byte the print leaves at i: what the last character that covers i
\* drew, or the byte that was there
PrintedByte(i) ==
    IF Covers(i) = {} THEN last.old.buffer[i]
    ELSE DrawnByte(CHOOSE k \in Covers(i) : \A j \in Covers(i) : j <= k, i)

\* C31: print(s, row, col) processes the characters of s in order: a newline
\* sets the column to 0 and advances the row by one without drawing; any
\* other character is drawn at the current (row, column) and advances the
\* column by its glyph width plus one; a character outside the codes
\* 0x20..0x7F has glyph width 0 and changes neither the buffer nor the dirty
\* flag; nothing wraps or scrolls at the edge of the surface: the row and the
\* column of a character do not depend on the size of the canvas, a glyph
\* column is written at row * width + column of the buffer wherever that is,
\* and every other byte is left as it was.  Stated of the prints whose glyph
\* columns all lie in the buffer (one past its end panics)
C31_PrintPlacesGlyphsInOrder ==
    (last.op = "print" /\ GlyphsInBuffer) =>
       /\ last.result = "Ok"
       /\ canvas.width = last.old.width
       /\ canvas.height = last.old.height
       /\ DOMAIN canvas.buffer = DOMAIN last.old.buffer
       /\ \A i \in DOMAIN canvas.buffer : canvas.buffer[i] = PrintedByte(i)
       /\ canvas.dirty = (last.old.dirty
                          \/ \E k \in 1..Len(PrintedString) : IsDrawn(k))

\* a print has drawn a glyph that passes the right edge, skipped a character
\* outside the table, taken a newline and drawn over a column drawn before
C31_Witness ==
    /\ last.op = "print"
    /\ last.result = "Ok"
    /\ GlyphsInBuffer
    /\ \E k \in 1..Len(PrintedString) :
          /\ IsDrawn(k)
          /\ ColAt(k) < last.old.width
          /\ ColAt(k) + GlyphWidth(PrintedString[k]) > last.old.width
    /\ \E k \in 1..Len(PrintedString) : PrintedString[k] > 127
    /\ \E k \in 1..Len(PrintedString) :
          PrintedString[k] = 10 /\ \E j \in (k + 1)..Len(PrintedString) : IsDrawn(j)
    /\ \E i \in DOMAIN canvas.buffer : Cardinality(Covers(i)) > 1
    /\ canvas.buffer # last.old.buffer

====
